---- MODULE Spec2Model ----
(***************************************************************************)
(* Balance ledger and settlement engine of the SplitCost API               *)
(* (src/src/routes/expenses.ts, src/src/routes/settlements.ts).            *)
(*                                                                         *)
(* Every request handler is a sequence of awaited store statements.  A     *)
(* request occupies a slot; its first statement runs in the Start action   *)
(* and every later statement is one step, so that requests interleave at   *)
(* the statement boundaries exactly as concurrent Worker invocations do.   *)
(* Spec runs the requests one at a time, SpecConc interleaves them.        *)
(* SpecFail adds statements and handler ends that fail, SpecRead balance   *)
(* reads between the statements of a mutation, SpecEdits two concurrent    *)
(* update and delete requests on one stored expense.  SpecFriends adds    *)
(* the removal of a friend and the two reads of the balance with a friend  *)
(* (src/src/routes/balances.ts).                                           *)
(* SpecSimplify applies simplifyDebts (src/src/routes/groups.ts) to        *)
(* snapshots of balance rows with amounts of whole cents, SpecSimplifyFine *)
(* to rows with fractions of a cent; SpecHub is the Durable Object that    *)
(* holds the WebSocket sessions of one channel (src/unnamed/part_001);     *)
(* SpecClient is the reconnecting WebSocket client (src/unnamed/part_002). *)
(*                                                                         *)
(* Amounts of the ledger are integers (cents), amounts of the simplifier   *)
(* tenths of a cent.  The balances table is keyed by                       *)
(* (user_id, friend_id, group_id), the conflict target of updateBalance.   *)
(***************************************************************************)
EXTENDS Integers, Sequences, FiniteSets, TLC

(* ----------------------------- bounds ---------------------------------- *)
MaxExpenses == 1
MaxSettlements == 1
MaxRequests == 4
MaxInFlight == 2
MaxRows == 3
MaxRuns == 2
MaxSockets == 3
Window == 2
Depth == 2
MaxClientSockets == 6

UserSeq == <<"U1", "U2", "U3">>
Users == {UserSeq[i] : i \in 1..Len(UserSeq)}
Groups == {"G1"}
SettleAmounts == {20}

(* ----------------------------- values ---------------------------------- *)
Null == "null"
NoUser == "none"
Scopes == Groups \cup {Null}
Keys == Users \X Users \X Scopes
ExpenseIds == 1..MaxExpenses
SettlementIds == 1..MaxSettlements
Slots == 1..MaxInFlight

VARIABLES
  balances,        \* table balances: key -> [exists, amount]
  expenses,        \* table expenses: id -> row
  expense_splits,  \* table expense_splits: expense id -> sequence of rows
  settlements,     \* table settlements: id -> row
  group_members,   \* table group_members: group -> user -> role
  reqs,            \* request slots: the handler invocations in flight
  nRequests,       \* number of requests received so far (bounded)
  applied,         \* history: times a settlement's ledger adjustment ran
  last,            \* history: the most recent request and the ledger at its start
  activities,      \* table activities: the (activity_type, reference_id) rows
  fault,           \* the failure of the behaviour: "none", "store", "activity", "hub"
  observed,        \* the most recent answer of a balance read
  snapshot,        \* the balance rows handed to simplifyDebts
  outputs,         \* the results of the runs of simplifyDebts on the snapshot
  sessions,        \* Durable Object: the Map sessions, in insertion order
  sockets,         \* the server ends of the WebSocket pairs the object created
  hubOp,           \* history: the most recent operation of the Durable Object
  client,          \* SplitCostClient: its fields, its WebSockets and its timers
  friendships      \* table friendships: the (user_id, friend_id, status) rows

\* The state outside the store and its request handlers.
offLedger == <<snapshot, outputs, sessions, sockets, hubOp, fault, observed, client,
              friendships>>

\* The store, its request handlers and their history.
ledgerVars == <<balances, expenses, expense_splits, settlements, group_members,
                reqs, nRequests, applied, last, activities>>

vars == <<balances, expenses, expense_splits, settlements, group_members,
          reqs, nRequests, applied, last, activities, fault, observed,
          snapshot, outputs, sessions, sockets, hubOp, client, friendships>>

(* ----------------------------- helpers --------------------------------- *)
\* The amount of a ledger entry; an entry without a row counts as 0.
Amt(k) == IF balances[k].exists THEN balances[k].amount ELSE 0

AmtOf(bal) == [k \in Keys |-> IF bal[k].exists THEN bal[k].amount ELSE 0]

NoRow == [exists |-> FALSE, amount |-> 0]

ZeroRow == [exists |-> TRUE, amount |-> 0]

Stmt(op, user, friend, scope, amount) ==
  [op |-> op, user |-> user, friend |-> friend, scope |-> scope, amount |-> amount]

Plain(op) == Stmt(op, NoUser, NoUser, Null, 0)

IdleReq ==
  [kind |-> "idle", id |-> 0, payer |-> NoUser, newPayer |-> NoUser, group |-> Null,
   splits |-> <<>>, todo |-> <<>>]

Request(kind, id, payer, newPayer, group, splits, todo) ==
  [kind |-> kind, id |-> id, payer |-> payer, newPayer |-> newPayer, group |-> group,
   splits |-> splits, todo |-> todo]

Quiescent == \A r \in Slots : reqs[r].kind = "idle"

OthersIdle(r) == \A q \in Slots \ {r} : reqs[q].kind = "idle"

\* Request bodies: the splits arrays that requests carry (the empty array
\* stands for a body without splits).
Split(userId, amount) == [user_id |-> userId, amount |-> amount]

SplitInputs ==
  { <<>>,
    <<Split("U1", 20), Split("U2", 20), Split("U3", 20)>>,
    <<Split("U2", 30)>> }

\* The users who create expenses, the paidBy fields of create and update
\* bodies (NoUser: the field is absent), and the two ends of a settlement.
\* The amount fields of create and update bodies (NoAmount: the field is
\* absent from an update body).
NoAmount == 0
CreateAmounts == {60}
UpdateAmounts == {NoAmount, 60}
Creators == {"U1", "U2"}
CreatePaidBy == {NoUser, "U1"}
UpdatePaidBy == {NoUser, "U3"}
Senders == {"U2", "U3"}
Recipients == {"U1"}

(* ------------------------ updateBalance -------------------------------- *)
\* updateBalance without the statement for the total row.
updateBalanceNoTotal(userId, friendId, amount, groupId) ==
  <<Stmt("upsert", userId, friendId, groupId, amount)>>

\* updateBalance(db, userId, friendId, amount, groupId): the upsert of the
\* scoped row and, for a group, the upsert of the total (NULL group) row.
updateBalance(userId, friendId, amount, groupId) ==
  <<Stmt("upsert", userId, friendId, groupId, amount)>> \o
  (IF groupId # Null THEN <<Stmt("upsert", userId, friendId, Null, amount)>> ELSE <<>>)

\* The balance loop without the adjustment of the participant's own entry.
RECURSIVE balanceLoopOneWay(_, _, _, _)
balanceLoopOneWay(splits, paidBy, groupId, sign) ==
  IF splits = <<>> THEN <<>>
  ELSE LET split == Head(splits)
           here == IF split.user_id = paidBy THEN <<>>
                   ELSE updateBalance(paidBy, split.user_id, sign * split.amount, groupId)
       IN here \o balanceLoopOneWay(Tail(splits), paidBy, groupId, sign)

\* The balance loop over a splits array: rows of the payer are skipped, every
\* other row adjusts both directions.  sign = 1 applies, sign = -1 reverses.
RECURSIVE balanceLoop(_, _, _, _)
balanceLoop(splits, paidBy, groupId, sign) ==
  IF splits = <<>> THEN <<>>
  ELSE LET split == Head(splits)
           here == IF split.user_id = paidBy THEN <<>>
                   ELSE updateBalance(paidBy, split.user_id, sign * split.amount, groupId) \o
                        updateBalance(split.user_id, paidBy, (0 - sign) * split.amount, groupId)
       IN here \o balanceLoop(Tail(splits), paidBy, groupId, sign)

\* Update handler, "Create new splits": each row is inserted and then applied.
RECURSIVE newSplitsLoop(_, _, _)
newSplitsLoop(splits, paidBy, groupId) ==
  IF splits = <<>> THEN <<>>
  ELSE LET split == Head(splits)
           here == <<Stmt("insert_split", split.user_id, NoUser, Null, split.amount)>> \o
                   (IF split.user_id # paidBy
                    THEN updateBalance(paidBy, split.user_id, split.amount, groupId) \o
                         updateBalance(split.user_id, paidBy, 0 - split.amount, groupId)
                    ELSE <<>>)
       IN here \o newSplitsLoop(Tail(splits), paidBy, groupId)

\* Authorization of update and delete: the payer, or an admin of the group.
mayEdit(expense, userId) ==
  \/ expense.paid_by = userId
  \/ /\ expense.group_id # Null
     /\ group_members[expense.group_id][userId] = "admin"

(* ------------------------ history variable ----------------------------- *)
\* last describes the most recent request that started while no other was in
\* flight: its kind, the row it addresses, its response (0 while it runs) and,
\* for the requests whose ledger effect is examined, the ledger at its start.
\* A delete directly after the successful creation of the same expense keeps
\* the ledger from before the creation (chained).
ZeroLedger == [k \in Keys |-> 0]

NoEpisode ==
  [kind |-> "none", id |-> 0, resp |-> 0, chained |-> FALSE, bal |-> ZeroLedger,
   actor |-> NoUser, casts |-> <<>>, committed |-> FALSE]

Episode(r, kind, id, code, snap) ==
  IF OthersIdle(r)
  THEN [kind |-> kind, id |-> id, resp |-> code, chained |-> FALSE,
        bal |-> IF snap THEN AmtOf(balances) ELSE ZeroLedger,
        actor |-> NoUser, casts |-> <<>>, committed |-> FALSE]
  ELSE NoEpisode

\* The episode of an expense creation, and of a settlement confirm, reject
\* or cancel that passed its authorization, names the authenticated user,
\* c.get('userId').
By(episode, userId) ==
  IF episode.kind = "none" THEN episode ELSE [episode EXCEPT !.actor = userId]

\* The channels of the Durable Objects a handler posts /broadcast to:
\* idFromName(groupId) and idFromName(`user:${userId}`).
GroupChannel(groupId) == <<"group", groupId>>

UserChannel(userId) == <<"user", userId>>

\* The broadcasts of a handler that ran to its end, in order.  Expense
\* create: the group channel, or without group the user channel of every
\* split; expense update and delete: the group channel, nothing without
\* group; settlement confirm: the user channel of the payer; reject and
\* cancel: nothing.
castsOf(req) ==
  CASE req.kind = "create_expense" ->
         IF req.group # Null THEN <<GroupChannel(req.group)>>
         ELSE [n \in 1..Len(req.splits) |-> UserChannel(req.splits[n].user_id)]
    [] req.kind \in {"update_expense", "delete_expense"} ->
         IF req.group # Null THEN <<GroupChannel(req.group)>> ELSE <<>>
    [] req.kind = "confirm" -> <<UserChannel(req.payer)>>
    [] OTHER -> <<>>

EpisodeOfDelete(r, id, code) ==
  IF /\ OthersIdle(r) /\ code = 0 /\ ~last.chained
     /\ last.kind = "create_expense" /\ last.id = id /\ last.resp = 200
  THEN [last EXCEPT !.kind = "delete_expense", !.resp = 0, !.chained = TRUE,
                    !.actor = NoUser, !.casts = <<>>, !.committed = FALSE]
  ELSE Episode(r, "delete_expense", id, code, FALSE)

\* The end of a handler, after its last ledger statement.  The expense
\* handlers INSERT INTO activities, then post their broadcasts, inside the one
\* try block whose catch answers 500.  fault names what fails there:
\* "activity" the INSERT INTO activities, "hub" the stub.fetch of a broadcast.
Faults == {"activity", "hub"}

logsActivity(req) == req.kind \in {"create_expense", "update_expense", "delete_expense"}

activityOf(req) ==
  [activity_type |-> CASE req.kind = "create_expense" -> "expense_added"
                       [] req.kind = "update_expense" -> "expense_updated"
                       [] OTHER -> "expense_deleted",
   reference_id |-> req.id]

\* An activity row written with the first statement of the handler already.
activityDueEarly(req, rest) == logsActivity(req) /\ fault # "activity"

\* The activity row is written once no statement is left, unless its INSERT
\* throws.
activityDue(req, rest) == rest = <<>> /\ logsActivity(req) /\ fault # "activity"

\* A rejected stub.fetch escapes the handler where it is awaited without
\* catch: the group broadcast of expense create, update and delete.  The
\* per-user broadcasts of a create without group end in .catch(console.error)
\* and the settlement handlers wrap theirs in try/catch.
broadcastUnguarded(req) == logsActivity(req) /\ req.group # Null

\* The status of the response of a handler whose statements all ran.
responseOf(req) ==
  IF logsActivity(req) /\ fault = "activity" THEN 500
  ELSE IF fault = "hub" /\ broadcastUnguarded(req) THEN 500
  ELSE 200

\* The broadcasts that were posted.
postedBy(req) == IF fault # "hub" /\ responseOf(req) = 200 THEN castsOf(req) ELSE <<>>

Returned(req) ==
  IF last.kind = req.kind /\ last.id = req.id /\ last.resp = 0
  THEN [last EXCEPT !.resp = responseOf(req), !.casts = postedBy(req), !.committed = TRUE]
  ELSE last

\* The catch block of a handler: c.json({ error: e.message }, 500).
Caught(req) ==
  IF last.kind = req.kind /\ last.id = req.id /\ last.resp = 0
  THEN [last EXCEPT !.resp = 500]
  ELSE last

\* The handler in slot r has run a statement: it continues with the rest of
\* its statements, or runs to its end, answers and frees the slot.
Proceed(r, rest) ==
  /\ reqs' = [reqs EXCEPT ![r] = IF rest = <<>> THEN IdleReq ELSE [@ EXCEPT !.todo = rest]]
  /\ last' = IF rest = <<>> THEN Returned(reqs[r]) ELSE last
  /\ activities' = IF activityDue(reqs[r], rest)
                   THEN activities \cup {activityOf(reqs[r])}
                   ELSE activities
  /\ UNCHANGED offLedger

(* ------------------------------ Init ----------------------------------- *)
\* The store after U1 created group G1 with member U2 (the group rows of the
\* pair are initialised to 0) and U1 and U3 became friends (the rows without
\* group of that pair are initialised to 0); no expense, no settlement.
GroupLinked(a, b) == {a, b} = {"U1", "U2"}

FriendLinked(a, b) == {a, b} = {"U1", "U3"}

StoreInit ==
  /\ balances = [k \in Keys |->
                   IF \/ k[3] # Null /\ GroupLinked(k[1], k[2])
                      \/ k[3] = Null /\ FriendLinked(k[1], k[2])
                   THEN ZeroRow ELSE NoRow]
  /\ expenses = [e \in ExpenseIds |->
                   [exists |-> FALSE, group_id |-> Null, paid_by |-> NoUser, amount |-> 0,
                    is_deleted |-> FALSE]]
  /\ expense_splits = [e \in ExpenseIds |-> <<>>]
  /\ settlements = [s \in SettlementIds |->
                      [status |-> "none", from_user_id |-> NoUser, to_user_id |-> NoUser,
                       group_id |-> Null, amount |-> 0]]
  /\ group_members = [g \in Groups |-> [u \in Users |->
                        IF u = "U1" THEN "admin" ELSE IF u = "U2" THEN "member" ELSE "none"]]
  /\ reqs = [r \in Slots |-> IdleReq]
  /\ applied = [s \in SettlementIds |-> 0]
  /\ last = NoEpisode
  /\ activities = {}

LedgerInit ==
  /\ StoreInit
  /\ nRequests = 0

SocketIds == 1..MaxSockets

\* A socket is open, or its transport has failed and its close and error
\* events are still to be dispatched, or its close event was dispatched.
NoSocket == [state |-> "none", userId |-> NoUser]

\* hubOp records the most recent operation: its kind, the user and socket it
\* is about, the message type and excluded user of its fan-out, the Map and
\* the open sockets when it began, and what its sends attempted and delivered.
\* For a connect it also records the welcome message: its connectedUsers and
\* the sockets that had been sent user_connected when it was sent.
NoWelcome == [connectedUsers |-> {}, after |-> {}]

NoOp ==
  [kind |-> "none", userId |-> NoUser, ws |-> 0, type |-> "none", exclude |-> NoUser,
   before |-> <<>>, open |-> {}, attempted |-> {}, delivered |-> {}, raised |-> FALSE,
   welcome |-> NoWelcome]

\* The Durable Object after its constructor: this.sessions = new Map().
HubInit ==
  /\ sessions = <<>>
  /\ sockets = [ws \in SocketIds |-> NoSocket]
  /\ hubOp = NoOp

\* Nothing fails and no balance was read yet.  observed holds the route of
\* the most recent read, its user, its status, its rows and its number among
\* the requests.
NoRead ==
  [kind |-> "none", userId |-> NoUser, resp |-> 0, rows |-> {}, at |-> 0, totalBalance |-> 0]

\* The client after its constructor: this.ws = null, reconnectAttempts = 0,
\* no WebSocket created, no timer pending.  stopped is history: the
\* application called disconnect() or logout() on an open connection and has
\* not called connect() since.
ClientSockets == 1..MaxClientSockets

NewClient ==
  [ws |-> 0, reconnectAttempts |-> 0,
   readyState |-> [w \in ClientSockets |-> "none"],
   timers |-> <<>>, stopped |-> FALSE]

\* U3 requested the friendship of U1 and U1 accepted it.
ProbeInit ==
  /\ fault = "none"
  /\ observed = NoRead
  /\ client = NewClient
  /\ friendships = {[user_id |-> "U3", friend_id |-> "U1", status |-> "accepted"]}

Init ==
  /\ LedgerInit
  /\ snapshot = <<>>
  /\ outputs = <<>>
  /\ HubInit
  /\ ProbeInit

(* ------------------------ expense handlers ----------------------------- *)
\* nanoid(): a fresh expense id.
freshExpense ==
  CHOOSE e \in ExpenseIds :
    ~expenses[e].exists /\ \A d \in ExpenseIds : d < e => expenses[d].exists

\* expenseRoutes.post('/'): validation, INSERT INTO expenses; the batch of
\* split inserts and the balance loop follow as later statements.
CreateExpense(r) ==
  \E userId \in Creators, groupId \in Scopes, paidBy \in CreatePaidBy, splits \in SplitInputs,
     amount \in CreateAmounts :
    /\ reqs[r].kind = "idle"
    /\ nRequests < MaxRequests
    /\ nRequests' = nRequests + 1
    /\ UNCHANGED <<offLedger, activities>>
    /\ \E e \in ExpenseIds : ~expenses[e].exists
    /\ IF splits = <<>>
       THEN /\ last' = Episode(r, "create_expense", 0, 400, TRUE)
            /\ UNCHANGED <<expenses, reqs>>
       ELSE LET actualPaidBy == IF paidBy = NoUser THEN userId ELSE paidBy
                expenseId == freshExpense
            IN /\ expenses' = [expenses EXCEPT ![expenseId] =
                                 [exists |-> TRUE, group_id |-> groupId,
                                  paid_by |-> actualPaidBy, amount |-> amount,
                                  is_deleted |-> FALSE]]
               /\ reqs' = [reqs EXCEPT ![r] =
                             Request("create_expense", expenseId, actualPaidBy, NoUser, groupId,
                                     splits,
                                     <<Plain("insert_splits")>> \o
                                     balanceLoop(splits, actualPaidBy, groupId, 1))]
               /\ last' = By(Episode(r, "create_expense", expenseId, 0, TRUE), userId)
    /\ UNCHANGED <<balances, expense_splits, settlements, group_members, applied>>

\* expenseRoutes.put('/:expenseId'): SELECT the live expense, authorize; the
\* UPDATE of the row and the recalculation follow as later statements.
UpdateExpense(r) ==
  \E userId \in Users, expenseId \in ExpenseIds, paidBy \in UpdatePaidBy,
     splits \in SplitInputs, amount \in UpdateAmounts :
    /\ reqs[r].kind = "idle"
    /\ nRequests < MaxRequests
    /\ nRequests' = nRequests + 1
    /\ UNCHANGED <<offLedger, activities>>
    /\ LET expense == expenses[expenseId] IN
       IF ~expense.exists \/ expense.is_deleted
       THEN /\ last' = Episode(r, "update_expense", expenseId, 404, FALSE)
            /\ UNCHANGED reqs
       ELSE IF ~mayEdit(expense, userId)
       THEN /\ last' = Episode(r, "update_expense", expenseId, 403, FALSE)
            /\ UNCHANGED reqs
       ELSE /\ last' = Episode(r, "update_expense", expenseId, 0, FALSE)
            /\ reqs' = [reqs EXCEPT ![r] =
                          Request("update_expense", expenseId, expense.paid_by, paidBy,
                                  expense.group_id, splits,
                                  <<Stmt("update_fields", NoUser, NoUser, Null, amount)>> \o
                                  (IF splits # <<>> THEN <<Plain("read_splits")>> ELSE <<>>))]
    /\ UNCHANGED <<balances, expenses, expense_splits, settlements, group_members, applied>>

\* expenseRoutes.delete('/:expenseId'): SELECT the live expense, authorize;
\* the SELECT of the stored splits, the reversal and the soft delete follow.
DeleteExpense(r) ==
  \E userId \in Users, expenseId \in ExpenseIds :
    /\ reqs[r].kind = "idle"
    /\ nRequests < MaxRequests
    /\ nRequests' = nRequests + 1
    /\ UNCHANGED <<offLedger, activities>>
    /\ LET expense == expenses[expenseId] IN
       IF ~expense.exists \/ expense.is_deleted
       THEN /\ last' = EpisodeOfDelete(r, expenseId, 404)
            /\ UNCHANGED reqs
       ELSE IF ~mayEdit(expense, userId)
       THEN /\ last' = EpisodeOfDelete(r, expenseId, 403)
            /\ UNCHANGED reqs
       ELSE /\ last' = EpisodeOfDelete(r, expenseId, 0)
            /\ reqs' = [reqs EXCEPT ![r] =
                          Request("delete_expense", expenseId, expense.paid_by, NoUser,
                                  expense.group_id, <<>>, <<Plain("read_splits")>>)]
    /\ UNCHANGED <<balances, expenses, expense_splits, settlements, group_members, applied>>

(* ------------------------ statements ----------------------------------- *)
Running(r, op) == reqs[r].kind # "idle" /\ Head(reqs[r].todo).op = op

\* DB.batch(splitInserts) of the create handler.
InsertSplits(r) ==
  /\ Running(r, "insert_splits")
  /\ expense_splits' = [expense_splits EXCEPT ![reqs[r].id] = @ \o reqs[r].splits]
  /\ Proceed(r, Tail(reqs[r].todo))
  /\ UNCHANGED <<balances, expenses, settlements, group_members, nRequests, applied>>

\* An upsert whose conflict branch writes the delta over the stored amount.
upsertRowOverwriting(row, amount) == [exists |-> TRUE, amount |-> amount]

\* INSERT INTO balances ... ON CONFLICT (user_id, friend_id, group_id)
\* DO UPDATE SET amount = amount + ?
upsertRow(row, amount) ==
  [exists |-> TRUE, amount |-> IF row.exists THEN row.amount + amount ELSE amount]

Upsert(r) ==
  /\ Running(r, "upsert")
  /\ LET st == Head(reqs[r].todo)
     IN balances' = [balances EXCEPT ![<<st.user, st.friend, st.scope>>] = upsertRow(@, st.amount)]
  /\ Proceed(r, Tail(reqs[r].todo))
  /\ UNCHANGED <<expenses, expense_splits, settlements, group_members, nRequests, applied>>

\* UPDATE expenses SET ..., updated_at = ? WHERE id = ?: amount = ? is among
\* the assignments when the body has an amount; paid_by never is.
UpdateFields(r) ==
  /\ Running(r, "update_fields")
  /\ LET amount == Head(reqs[r].todo).amount
     IN expenses' = [expenses EXCEPT ![reqs[r].id].amount =
                       IF amount # NoAmount /\ expenses[reqs[r].id].exists THEN amount ELSE @]
  /\ Proceed(r, Tail(reqs[r].todo))
  /\ UNCHANGED <<balances, expense_splits, settlements, group_members, nRequests, applied>>

\* The continuation of the delete handler without the reversal.
afterReadSplitsNoReversal(req, oldSplits) ==
  IF req.kind = "update_expense"
  THEN balanceLoop(oldSplits, req.payer, req.group, -1) \o <<Plain("delete_splits")>> \o
       newSplitsLoop(req.splits, IF req.newPayer = NoUser THEN req.payer ELSE req.newPayer,
                     req.group)
  ELSE <<Plain("soft_delete")>>

\* SELECT * FROM expense_splits WHERE expense_id = ?: the stored rows decide
\* the reversal; the update handler then deletes them and writes the new ones
\* against updates.paidBy || expense.paid_by, the delete handler marks the
\* expense deleted.
afterReadSplits(req, oldSplits) ==
  LET reversal == balanceLoop(oldSplits, req.payer, req.group, -1)
      paidBy == IF req.newPayer = NoUser THEN req.payer ELSE req.newPayer
  IN IF req.kind = "update_expense"
     THEN reversal \o <<Plain("delete_splits")>> \o newSplitsLoop(req.splits, paidBy, req.group)
     ELSE reversal \o <<Plain("soft_delete")>>

ReadSplits(r) ==
  /\ Running(r, "read_splits")
  /\ Proceed(r, afterReadSplits(reqs[r], expense_splits[reqs[r].id]))
  /\ UNCHANGED <<balances, expenses, expense_splits, settlements, group_members,
                 nRequests, applied>>

\* DELETE FROM expense_splits WHERE expense_id = ?
DeleteSplits(r) ==
  /\ Running(r, "delete_splits")
  /\ expense_splits' = [expense_splits EXCEPT ![reqs[r].id] = <<>>]
  /\ Proceed(r, Tail(reqs[r].todo))
  /\ UNCHANGED <<balances, expenses, settlements, group_members, nRequests, applied>>

\* INSERT INTO expense_splits of one new row in the update handler.
InsertSplit(r) ==
  /\ Running(r, "insert_split")
  /\ LET st == Head(reqs[r].todo)
     IN expense_splits' = [expense_splits EXCEPT ![reqs[r].id] =
                             Append(@, Split(st.user, st.amount))]
  /\ Proceed(r, Tail(reqs[r].todo))
  /\ UNCHANGED <<balances, expenses, settlements, group_members, nRequests, applied>>

\* UPDATE expenses SET is_deleted = 1, deleted_at = ? WHERE id = ?
SoftDelete(r) ==
  /\ Running(r, "soft_delete")
  /\ expenses' = [expenses EXCEPT ![reqs[r].id].is_deleted = TRUE]
  /\ Proceed(r, Tail(reqs[r].todo))
  /\ UNCHANGED <<balances, expense_splits, settlements, group_members, nRequests, applied>>

(* ------------------------ settlement handlers -------------------------- *)
\* nanoid(): a fresh settlement id.
freshSettlement ==
  CHOOSE s \in SettlementIds :
    settlements[s].status = "none" /\ \A d \in SettlementIds : d < s => settlements[d].status # "none"

\* The end of settlementRoutes.post('/'): one broadcast, to the user channel
\* of the recipient.
settlementCreated(r, settlementId, userId, toUserId) ==
  LET episode == Episode(r, "create_settlement", settlementId, 200, FALSE)
  IN IF episode.kind = "none" THEN episode
     ELSE [episode EXCEPT !.casts = IF fault # "hub" THEN <<UserChannel(toUserId)>>
                                    ELSE <<>>,
                          !.committed = TRUE]

\* settlementRoutes.post('/'): INSERT INTO settlements ... 'pending'.
CreateSettlement(r) ==
  \E userId \in Senders, toUserId \in Recipients, groupId \in Scopes,
     amount \in SettleAmounts \cup {0} :
    /\ reqs[r].kind = "idle"
    /\ nRequests < MaxRequests
    /\ nRequests' = nRequests + 1
    /\ UNCHANGED <<offLedger, activities>>
    /\ \E s \in SettlementIds : settlements[s].status = "none"
    /\ IF amount = 0
       THEN /\ last' = Episode(r, "create_settlement", 0, 400, FALSE)
            /\ UNCHANGED settlements
       ELSE LET settlementId == freshSettlement
            IN /\ settlements' = [settlements EXCEPT ![settlementId] =
                                    [status |-> "pending", from_user_id |-> userId,
                                     to_user_id |-> toUserId, group_id |-> groupId,
                                     amount |-> amount]]
               /\ last' = settlementCreated(r, settlementId, userId, toUserId)
    /\ UNCHANGED <<balances, expenses, expense_splits, group_members, reqs, applied>>

\* SELECT * FROM settlements WHERE id = ? AND status = 'pending'
pendingRow(settlementId) == settlements[settlementId].status = "pending"

\* The two balance statements of the confirm handler.
confirmBalances(fromUserId, userId, amount, groupId) ==
  <<Stmt("bal_update", fromUserId, userId, groupId, 0 - amount),
    Stmt("bal_update", userId, fromUserId, groupId, amount)>>

\* The statements of the confirm, reject and cancel handlers after the SELECT.
confirmStatements(settlement, userId) ==
  <<Plain("set_confirmed")>> \o
  confirmBalances(settlement.from_user_id, userId, settlement.amount, settlement.group_id)

\* A reject handler that also adjusts the ledger.
rejectStatementsAdjusting(settlement, userId) ==
  <<Plain("set_rejected")>> \o
  confirmBalances(userId, settlement.from_user_id, settlement.amount, settlement.group_id)

rejectStatements(settlement, userId) == <<Plain("set_rejected")>>

cancelStatements(settlement, userId) == <<Plain("delete_settlement")>>

\* An authorization that lets every user through.
isRecipientAnyone(settlement, userId) == TRUE

\* if (settlement.to_user_id !== userId) return 403
isRecipient(settlement, userId) == settlement.to_user_id = userId

\* if (settlement.from_user_id !== userId) return 403
isCreator(settlement, userId) == settlement.from_user_id = userId

\* settlementRoutes.post('/:settlementId/confirm'): SELECT the pending row and
\* authorize; the status UPDATE and the two balance UPDATEs follow.
ConfirmSettlement(r) ==
  \E userId \in Users, settlementId \in SettlementIds :
    /\ reqs[r].kind = "idle"
    /\ nRequests < MaxRequests
    /\ nRequests' = nRequests + 1
    /\ UNCHANGED <<offLedger, activities>>
    /\ LET settlement == settlements[settlementId] IN
       IF ~pendingRow(settlementId)
       THEN /\ last' = Episode(r, "confirm", settlementId, 404, TRUE)
            /\ UNCHANGED reqs
       ELSE IF ~isRecipient(settlement, userId)
       THEN /\ last' = Episode(r, "confirm", settlementId, 403, TRUE)
            /\ UNCHANGED reqs
       ELSE /\ last' = By(Episode(r, "confirm", settlementId, 0, TRUE), userId)
            /\ reqs' = [reqs EXCEPT ![r] =
                          Request("confirm", settlementId, settlement.from_user_id, NoUser,
                                  settlement.group_id, <<>>,
                                  confirmStatements(settlement, userId))]
    /\ UNCHANGED <<balances, expenses, expense_splits, settlements, group_members, applied>>

\* settlementRoutes.post('/:settlementId/reject')
RejectSettlement(r) ==
  \E userId \in Users, settlementId \in SettlementIds :
    /\ reqs[r].kind = "idle"
    /\ nRequests < MaxRequests
    /\ nRequests' = nRequests + 1
    /\ UNCHANGED <<offLedger, activities>>
    /\ LET settlement == settlements[settlementId] IN
       IF ~pendingRow(settlementId)
       THEN /\ last' = Episode(r, "reject", settlementId, 404, FALSE)
            /\ UNCHANGED reqs
       ELSE IF ~isRecipient(settlement, userId)
       THEN /\ last' = Episode(r, "reject", settlementId, 403, FALSE)
            /\ UNCHANGED reqs
       ELSE /\ last' = By(Episode(r, "reject", settlementId, 0, FALSE), userId)
            /\ reqs' = [reqs EXCEPT ![r] =
                          Request("reject", settlementId, NoUser, NoUser, Null, <<>>,
                                  rejectStatements(settlement, userId))]
    /\ UNCHANGED <<balances, expenses, expense_splits, settlements, group_members, applied>>

\* settlementRoutes.delete('/:settlementId')
CancelSettlement(r) ==
  \E userId \in Users, settlementId \in SettlementIds :
    /\ reqs[r].kind = "idle"
    /\ nRequests < MaxRequests
    /\ nRequests' = nRequests + 1
    /\ UNCHANGED <<offLedger, activities>>
    /\ LET settlement == settlements[settlementId] IN
       IF ~pendingRow(settlementId)
       THEN /\ last' = Episode(r, "cancel", settlementId, 404, FALSE)
            /\ UNCHANGED reqs
       ELSE IF ~isCreator(settlement, userId)
       THEN /\ last' = Episode(r, "cancel", settlementId, 403, FALSE)
            /\ UNCHANGED reqs
       ELSE /\ last' = By(Episode(r, "cancel", settlementId, 0, FALSE), userId)
            /\ reqs' = [reqs EXCEPT ![r] =
                          Request("cancel", settlementId, NoUser, NoUser, Null, <<>>,
                                  cancelStatements(settlement, userId))]
    /\ UNCHANGED <<balances, expenses, expense_splits, settlements, group_members, applied>>

\* A row of table settlements is present (an id not yet inserted, or whose
\* row was deleted, matches no UPDATE).
rowPresent(settlementId) == settlements[settlementId].status \in {"pending", "confirmed", "rejected"}

\* UPDATE settlements SET status = ? WHERE id = ? (no condition on the status)
setStatus(settlementId, status) ==
  [settlements EXCEPT ![settlementId].status = IF rowPresent(settlementId) THEN status ELSE @]

\* UPDATE settlements SET status = 'confirmed', confirmed_at = ? WHERE id = ?
SetConfirmed(r) ==
  /\ Running(r, "set_confirmed")
  /\ settlements' = setStatus(reqs[r].id, "confirmed")
  /\ Proceed(r, Tail(reqs[r].todo))
  /\ UNCHANGED <<balances, expenses, expense_splits, group_members, nRequests, applied>>

\* UPDATE settlements SET status = 'rejected' WHERE id = ?
SetRejected(r) ==
  /\ Running(r, "set_rejected")
  /\ settlements' = setStatus(reqs[r].id, "rejected")
  /\ Proceed(r, Tail(reqs[r].todo))
  /\ UNCHANGED <<balances, expenses, expense_splits, group_members, nRequests, applied>>

\* DELETE FROM settlements WHERE id = ?
DeleteSettlement(r) ==
  /\ Running(r, "delete_settlement")
  /\ settlements' = setStatus(reqs[r].id, "removed")
  /\ Proceed(r, Tail(reqs[r].todo))
  /\ UNCHANGED <<balances, expenses, expense_splits, group_members, nRequests, applied>>

\* UPDATE balances SET amount = amount +/- ? WHERE user_id = ? AND friend_id = ?
\* AND (group_id = ? OR (? IS NULL AND group_id IS NULL)): only a present row
\* is changed.
updateRow(row, amount) ==
  IF row.exists THEN [row EXCEPT !.amount = @ + amount] ELSE row

\* The second balance statement completes the settlement's ledger adjustment.
BalUpdate(r) ==
  /\ Running(r, "bal_update")
  /\ LET st == Head(reqs[r].todo)
     IN balances' = [balances EXCEPT ![<<st.user, st.friend, st.scope>>] = updateRow(@, st.amount)]
  /\ applied' = IF Len(reqs[r].todo) = 1
                THEN [applied EXCEPT ![reqs[r].id] = @ + 1]
                ELSE applied
  /\ Proceed(r, Tail(reqs[r].todo))
  /\ UNCHANGED <<expenses, expense_splits, settlements, group_members, nRequests>>

(* ------------------------ specifications ------------------------------- *)
Start(r) ==
  \/ CreateExpense(r)
  \/ UpdateExpense(r)
  \/ DeleteExpense(r)
  \/ CreateSettlement(r)
  \/ ConfirmSettlement(r)
  \/ RejectSettlement(r)
  \/ CancelSettlement(r)

Step(r) ==
  \/ InsertSplits(r)
  \/ Upsert(r)
  \/ UpdateFields(r)
  \/ ReadSplits(r)
  \/ DeleteSplits(r)
  \/ InsertSplit(r)
  \/ SoftDelete(r)
  \/ SetConfirmed(r)
  \/ SetRejected(r)
  \/ DeleteSettlement(r)
  \/ BalUpdate(r)

\* One request at a time: only slot 1 is ever used, so a request starts only
\* when none is in flight.
Next ==
  \/ Start(1)
  \/ Step(1)

Spec == Init /\ [][Next]_vars

\* Concurrent settlement requests: any free slot may start one at any time and
\* the requests in flight interleave statement by statement.
NextConc ==
  \E r \in Slots :
    \/ CreateSettlement(r)
    \/ ConfirmSettlement(r)
    \/ RejectSettlement(r)
    \/ CancelSettlement(r)
    \/ SetConfirmed(r)
    \/ SetRejected(r)
    \/ DeleteSettlement(r)
    \/ BalUpdate(r)

SpecConc == Init /\ [][NextConc]_vars

(* ------------------------ failures ------------------------------------- *)
\* The next statement of the handler in slot r is a write and throws (the
\* database rejects it): control passes to the catch block of the handler,
\* which answers 500.  No handler opens a transaction, so the statements that
\* ran before stay.  A behaviour has one failure: fault = "store" records
\* that a statement threw; the statements after it run again.
StoreFails(r) ==
  /\ fault = "none"
  /\ reqs[r].kind # "idle"
  /\ Head(reqs[r].todo).op # "read_splits"
  /\ fault' = "store"
  /\ reqs' = [reqs EXCEPT ![r] = IdleReq]
  /\ last' = Caught(reqs[r])
  /\ UNCHANGED <<balances, expenses, expense_splits, settlements, group_members,
                 nRequests, applied, activities, observed,
                 snapshot, outputs, sessions, sockets, hubOp, client, friendships>>

\* From now on the INSERT INTO activities throws, or the stub.fetch of a
\* broadcast rejects.
TailFault ==
  /\ fault = "none"
  /\ fault' \in Faults
  /\ UNCHANGED <<ledgerVars, observed, snapshot, outputs, sessions, sockets, hubOp, client, friendships>>

\* The specifications below follow the last Window requests of the budget.
WindowInit ==
  /\ StoreInit
  /\ nRequests = MaxRequests - Window
  /\ snapshot = <<>>
  /\ outputs = <<>>
  /\ HubInit
  /\ ProbeInit

\* Sequential requests; statements and the ends of handlers may fail.
NextFail ==
  \/ Start(1)
  \/ Step(1)
  \/ StoreFails(1)
  \/ TailFault

SpecFail == WindowInit /\ [][NextFail]_vars

(* ------------------------ balance reads -------------------------------- *)
\* The rows of balanceRoutes.get('/') for a ledger: SELECT friend_id,
\* group_id, SUM(amount) ... WHERE user_id = ? GROUP BY friend_id, group_id
\* HAVING ABS(SUM(amount)) > 0.01.  A group of the GROUP BY is one row, the
\* table being keyed by (user_id, friend_id, group_id).
userRows(bal, userId) ==
  {[user_id |-> k[1], friend_id |-> k[2], group_id |-> k[3], amount |-> bal[k]] :
     k \in {j \in Keys : j[1] = userId /\ (bal[j] > 1 \/ 0 - bal[j] > 1)}}

\* The rows of groupRoutes.get('/:groupId/balances') for a ledger: SELECT
\* user_id, friend_id, amount ... WHERE group_id = ? AND amount > 0.
groupRows(bal, groupId) ==
  {[user_id |-> k[1], friend_id |-> k[2], group_id |-> k[3], amount |-> bal[k]] :
     k \in {j \in Keys : j[3] = groupId /\ bal[j] > 0}}

\* balanceRoutes.get('/'): one SELECT over the store as it is at that moment.
ReadUserBalances ==
  \E userId \in Users :
    /\ nRequests < MaxRequests
    /\ nRequests' = nRequests + 1
    /\ observed' = [kind |-> "user", userId |-> userId, resp |-> 200,
                    rows |-> userRows(AmtOf(balances), userId), at |-> nRequests + 1,
                    totalBalance |-> 0]
    /\ UNCHANGED <<balances, expenses, expense_splits, settlements, group_members,
                   reqs, applied, last, activities, fault,
                   snapshot, outputs, sessions, sockets, hubOp, client, friendships>>

\* groupRoutes.get('/:groupId/balances'): the membership check, then one
\* SELECT over the store as it is at that moment.
ReadGroupBalances ==
  \E userId \in Users, groupId \in Groups :
    /\ nRequests < MaxRequests
    /\ nRequests' = nRequests + 1
    /\ observed' = IF group_members[groupId][userId] = "none"
                   THEN [kind |-> "group", userId |-> userId, resp |-> 403, rows |-> {},
                         at |-> nRequests + 1, totalBalance |-> 0]
                   ELSE [kind |-> "group", userId |-> userId, resp |-> 200,
                         rows |-> groupRows(AmtOf(balances), groupId), at |-> nRequests + 1,
                         totalBalance |-> 0]
    /\ UNCHANGED <<balances, expenses, expense_splits, settlements, group_members,
                   reqs, applied, last, activities, fault,
                   snapshot, outputs, sessions, sockets, hubOp, client, friendships>>

\* One mutation at a time, with balance reads arriving at any moment, also
\* between two statements of the mutation in flight.
NextRead ==
  \/ Start(1)
  \/ Step(1)
  \/ ReadUserBalances
  \/ ReadGroupBalances

SpecRead == WindowInit /\ [][NextRead]_vars

(* ------------------------ balance with a friend ------------------------ *)
\* The rows of balanceRoutes.get('/friend/:friendId'): SELECT b.amount,
\* b.group_id ... WHERE b.user_id = ? AND b.friend_id = ?, every scope.
pairRows(bal, userId, friendId) ==
  {[user_id |-> k[1], friend_id |-> k[2], group_id |-> k[3], amount |-> bal[k].amount] :
     k \in {j \in Keys : j[1] = userId /\ j[2] = friendId /\ bal[j].exists}}

\* results.reduce((sum, b) => sum + b.amount, 0)
RECURSIVE reduceSum(_)
reduceSum(results) ==
  IF results = {} THEN 0
  ELSE LET b == CHOOSE x \in results : TRUE
       IN b.amount + reduceSum(results \ {b})

\* totalBalance of balanceRoutes.get('/friend/:friendId'):
\* Math.round(totalBalance * 100) / 100.  The amounts of the ledger are whole
\* cents, and so is their sum.
friendTotalBalance(bal, userId, friendId) ==
  (reduceSum(pairRows(bal, userId, friendId)) * 100) \div 100

\* totalBalance of friendRoutes.get('/:friendId/balance'): balance?.amount || 0
\* of SELECT amount ... WHERE user_id = ? AND friend_id = ? AND group_id IS NULL.
friendBalance(bal, userId, friendId) ==
  IF bal[<<userId, friendId, Null>>].exists THEN bal[<<userId, friendId, Null>>].amount ELSE 0

\* balanceRoutes.get('/friend/:friendId'): one SELECT.
ReadFriendTotal ==
  \E userId \in Users : \E friendId \in Users \ {userId} :
    /\ nRequests < MaxRequests
    /\ nRequests' = nRequests + 1
    /\ observed' = [kind |-> "friendTotal", userId |-> userId, resp |-> 200,
                    rows |-> pairRows(balances, userId, friendId), at |-> nRequests + 1,
                    totalBalance |-> friendTotalBalance(balances, userId, friendId)]
    /\ UNCHANGED <<balances, expenses, expense_splits, settlements, group_members,
                   reqs, applied, last, activities, fault,
                   snapshot, outputs, sessions, sockets, hubOp, client, friendships>>

\* friendRoutes.get('/:friendId/balance'): the SELECT of the row without
\* group, then the SELECT of the rows with a group.
ReadFriendBalance ==
  \E userId \in Users : \E friendId \in Users \ {userId} :
    /\ nRequests < MaxRequests
    /\ nRequests' = nRequests + 1
    /\ observed' = [kind |-> "friend", userId |-> userId, resp |-> 200,
                    rows |-> {b \in pairRows(balances, userId, friendId) : b.group_id # Null},
                    at |-> nRequests + 1,
                    totalBalance |-> friendBalance(balances, userId, friendId)]
    /\ UNCHANGED <<balances, expenses, expense_splits, settlements, group_members,
                   reqs, applied, last, activities, fault,
                   snapshot, outputs, sessions, sockets, hubOp, client, friendships>>

(* ------------------------ friends -------------------------------------- *)
\* WHERE (user_id = ? AND friend_id = ?) OR (user_id = ? AND friend_id = ?)
\* bound to (userId, friendId, friendId, userId).
ofPair(user_id, friend_id, userId, friendId) ==
  \/ user_id = userId /\ friend_id = friendId
  \/ user_id = friendId /\ friend_id = userId

\* DELETE /api/friends/:friendId: the friendship rows of the two users are
\* deleted, then their balance rows, whatever their group_id.
RemoveFriend(userId, friendId) ==
  /\ reqs[1] = IdleReq
  /\ nRequests < MaxRequests
  /\ nRequests' = nRequests + 1
  /\ friendships' = {f \in friendships : ~ofPair(f.user_id, f.friend_id, userId, friendId)}
  /\ balances' = [k \in Keys |->
                    IF ofPair(k[1], k[2], userId, friendId) THEN NoRow ELSE balances[k]]
  /\ UNCHANGED <<expenses, expense_splits, settlements, group_members, reqs, applied,
                 last, activities, fault, observed, snapshot, outputs, sessions, sockets,
                 hubOp, client>>

\* One mutation at a time, among them the removal of a friend, with the two
\* reads of the balance with a friend arriving at any moment.
NextFriends ==
  \/ Start(1)
  \/ Step(1)
  \/ \E userId \in Users : \E friendId \in Users \ {userId} : RemoveFriend(userId, friendId)
  \/ ReadFriendTotal
  \/ ReadFriendBalance

SpecFriends == WindowInit /\ [][NextFriends]_vars

(* ------------------------ concurrent expense requests ------------------ *)
\* The store after U1 created expense 1 without group: 60 paid by U1, split
\* 20/20/20 among U1, U2 and U3.  The balance loop has created the rows of
\* U1 and U2 and moved those of U1 and U3; the expense_added row is written.
SharedSplits == <<Split("U1", 20), Split("U2", 20), Split("U3", 20)>>

SharedLedger ==
  [k \in Keys |->
     IF k[3] # Null THEN 0
     ELSE IF k[1] = "U1" /\ k[2] \in {"U2", "U3"} THEN 20
     ELSE IF k[2] = "U1" /\ k[1] \in {"U2", "U3"} THEN 0 - 20
     ELSE 0]

EditsInit ==
  /\ balances = [k \in Keys |->
                   IF SharedLedger[k] # 0 THEN [exists |-> TRUE, amount |-> SharedLedger[k]]
                   ELSE IF k[3] # Null /\ GroupLinked(k[1], k[2]) THEN ZeroRow
                   ELSE NoRow]
  /\ expenses = [e \in ExpenseIds |->
                   IF e = 1
                   THEN [exists |-> TRUE, group_id |-> Null, paid_by |-> "U1", amount |-> 60,
                         is_deleted |-> FALSE]
                   ELSE [exists |-> FALSE, group_id |-> Null, paid_by |-> NoUser, amount |-> 0,
                         is_deleted |-> FALSE]]
  /\ expense_splits = [e \in ExpenseIds |-> IF e = 1 THEN SharedSplits ELSE <<>>]
  /\ settlements = [s \in SettlementIds |->
                      [status |-> "none", from_user_id |-> NoUser, to_user_id |-> NoUser,
                       group_id |-> Null, amount |-> 0]]
  /\ group_members = [g \in Groups |-> [u \in Users |->
                        IF u = "U1" THEN "admin" ELSE IF u = "U2" THEN "member" ELSE "none"]]
  /\ reqs = [r \in Slots |-> IdleReq]
  /\ nRequests = MaxRequests - Depth
  /\ applied = [s \in SettlementIds |-> 0]
  /\ last = NoEpisode
  /\ activities = {[activity_type |-> "expense_added", reference_id |-> 1]}
  /\ snapshot = <<>>
  /\ outputs = <<>>
  /\ HubInit
  /\ ProbeInit

\* Two concurrent update and delete requests: either of two slots may start
\* one at any time and the requests in flight interleave statement by
\* statement.
Pair == {1, 2}

NextEdits ==
  \E r \in Pair :
    \/ UpdateExpense(r)
    \/ DeleteExpense(r)
    \/ UpdateFields(r)
    \/ ReadSplits(r)
    \/ Upsert(r)
    \/ DeleteSplits(r)
    \/ InsertSplit(r)
    \/ SoftDelete(r)

SpecEdits == EditsInit /\ [][NextEdits]_vars

(* ------------------------ simplifyDebts -------------------------------- *)
\* Amounts are tenths of a cent, so 0.01 is 10.
Epsilon == 10

Participants == Users \cup {"U4"}

Row(userId, friendId, amount) == [user_id |-> userId, friend_id |-> friendId, amount |-> amount]

\* The rows a snapshot is drawn from: rows of table balances with amount > 0,
\* here with amounts of whole cents.
RowChoices ==
  { Row("U1", "U3", 300), Row("U2", "U3", 200), Row("U1", "U4", 100), Row("U2", "U4", 200),
    Row("U1", "U2", 10), Row("U1", "U4", 10), Row("U3", "U1", 300), Row("U3", "U2", 200) }

Snapshots == UNION {[1..n -> RowChoices] : n \in 0..MaxRows}

\* netBalance[id] = (netBalance[id] || 0) + delta.  The object is kept as the
\* list of its entries in insertion order, the order of Object.entries.
addNet(netBalance, id, delta) ==
  IF \E n \in 1..Len(netBalance) : netBalance[n].id = id
  THEN [n \in 1..Len(netBalance) |->
          IF netBalance[n].id = id
          THEN [netBalance[n] EXCEPT !.amount = @ + delta]
          ELSE netBalance[n]]
  ELSE Append(netBalance, [id |-> id, amount |-> delta])

\* for (const b of balances) { ... }
RECURSIVE netBalanceOf(_, _)
netBalanceOf(rows, netBalance) ==
  IF rows = <<>> THEN netBalance
  ELSE LET b == Head(rows)
       IN netBalanceOf(Tail(rows),
                       addNet(addNet(netBalance, b.user_id, b.amount), b.friend_id, 0 - b.amount))

\* if (amount > 0.01) creditors.push({ id, amount })
isCreditor(entry) == entry.amount > Epsilon

\* else if (amount < -0.01) debtors.push({ id, amount: -amount })
isDebtor(entry) == entry.amount < 0 - Epsilon

creditorsOf(netBalance) == SelectSeq(netBalance, isCreditor)

debtorsOf(netBalance) ==
  LET owing == SelectSeq(netBalance, isDebtor)
  IN [n \in 1..Len(owing) |-> [id |-> owing[n].id, amount |-> 0 - owing[n].amount]]

\* list.sort((a, b) => b.amount - a.amount): descending, and stable, so an
\* element is placed behind every element that is not smaller.
insertDesc(sorted, x) ==
  LET k == Cardinality({n \in 1..Len(sorted) : sorted[n].amount >= x.amount})
  IN SubSeq(sorted, 1, k) \o <<x>> \o SubSeq(sorted, k + 1, Len(sorted))

\* The lists left in the order of the entries of netBalance.
sortDescNone(list) == list

RECURSIVE sortDesc(_)
sortDesc(list) ==
  IF list = <<>> THEN <<>>
  ELSE insertDesc(sortDesc(SubSeq(list, 1, Len(list) - 1)), list[Len(list)])

Min(a, b) == IF a < b THEN a ELSE b

\* Math.round(amount * 100) / 100 of a positive amount: the nearest whole
\* cent, a half rounded up.
roundToCents(amount) == ((amount + 5) \div 10) * 10

\* Half of the smaller remainder, rounded up.
matchedHalf(creditor, debtor) == (Min(creditor.amount, debtor.amount) + 1) \div 2

\* const amount = Math.min(creditor.amount, debtor.amount)
matched(creditor, debtor) == Min(creditor.amount, debtor.amount)

\* while (i < creditors.length && j < debtors.length) { ... }, with the
\* indices counted from 1; iterations counts the executions of its body.
RECURSIVE matchLoop(_, _, _, _, _, _)
matchLoop(creditors, debtors, i, j, simplified, iterations) ==
  IF ~(i <= Len(creditors) /\ j <= Len(debtors))
  THEN [creditors |-> creditors, debtors |-> debtors, i |-> i, j |-> j,
        simplified |-> simplified, iterations |-> iterations]
  ELSE LET creditor == creditors[i]
           debtor == debtors[j]
           amount == matched(creditor, debtor)
           pushed == IF amount > Epsilon
                     THEN Append(simplified, [from_user_id |-> debtor.id,
                                              to_user_id |-> creditor.id,
                                              amount |-> roundToCents(amount)])
                     ELSE simplified
           creditorsLeft == [creditors EXCEPT ![i].amount = @ - amount]
           debtorsLeft == [debtors EXCEPT ![j].amount = @ - amount]
       IN matchLoop(creditorsLeft, debtorsLeft,
                    IF creditorsLeft[i].amount < Epsilon THEN i + 1 ELSE i,
                    IF debtorsLeft[j].amount < Epsilon THEN j + 1 ELSE j,
                    pushed, iterations + 1)

\* The state of simplifyDebts(balances) when its loop ends.
simplifyRun(rows) ==
  LET netBalance == netBalanceOf(rows, <<>>)
  IN matchLoop(sortDesc(creditorsOf(netBalance)), sortDesc(debtorsOf(netBalance)),
               1, 1, <<>>, 0)

\* simplifyDebts(balances): return simplified.  The function has no throw.
simplifyDebts(rows) == [error |-> FALSE, simplified |-> simplifyRun(rows).simplified]

\* The rows of a snapshot whose amounts were consumed by the run.
rowsAfterRunAliased(rows) == [n \in 1..Len(rows) |-> [rows[n] EXCEPT !.amount = 0]]

\* The input rows after a run: the function reads b.user_id, b.friend_id and
\* b.amount and writes only to netBalance, creditors, debtors and simplified.
rowsAfterRun(rows) == rows

\* One call of simplifyDebts on the snapshot.
RunSimplify ==
  /\ Len(outputs) < MaxRuns
  /\ outputs' = Append(outputs, simplifyDebts(snapshot))
  /\ snapshot' = rowsAfterRun(snapshot)
  /\ UNCHANGED <<ledgerVars, friendships, fault, observed, client, sessions, sockets, hubOp>>

InitSimplify ==
  /\ LedgerInit
  /\ ProbeInit
  /\ snapshot \in Snapshots
  /\ outputs = <<>>
  /\ HubInit

NextSimplify == RunSimplify

SpecSimplify == InitSimplify /\ [][NextSimplify]_vars

\* Rows whose amounts have fractions of a cent: column amount is REAL and
\* the handlers store the amounts of the request as they come.
FineRowChoices ==
  { Row("U1", "U3", 26), Row("U1", "U3", 12), Row("U2", "U3", 3333), Row("U2", "U4", 6667),
    Row("U1", "U4", 15), Row("U3", "U1", 26), Row("U4", "U2", 104), Row("U1", "U2", 10) }

InitSimplifyFine ==
  /\ LedgerInit
  /\ ProbeInit
  /\ snapshot \in UNION {[1..n -> FineRowChoices] : n \in 0..MaxRows}
  /\ outputs = <<>>
  /\ HubInit

SpecSimplifyFine == InitSimplifyFine /\ [][NextSimplify]_vars

(* ------------------------ SplitCostDurableObject ----------------------- *)
\* The users who connect, and the message types a client sends over its socket.
Subjects == {"U1", "U2"}

ClientMessages == {"ping", "typing", "expense_added", "request_sync", "other"}

\* The frames a socket receives: a message of one of these types, or text
\* that JSON.parse rejects.
Frames == ClientMessages \cup {"malformed"}

\* webSocket.send(...) throws unless the socket is open.  A socket of a
\* stored session that sockets does not record yet is the one being accepted.
sendSucceeds(ws) == sockets[ws].state \in {"none", "open"}

Session(userId, ws) == [userId |-> userId, ws |-> ws, quit |-> FALSE]

hasSession(roster, userId) == \E n \in 1..Len(roster) : roster[n].userId = userId

\* this.sessions.set(userId, session): an existing key keeps its place.
sessionsSet(roster, session) ==
  IF hasSession(roster, session.userId)
  THEN [n \in 1..Len(roster) |->
          IF roster[n].userId = session.userId THEN session ELSE roster[n]]
  ELSE Append(roster, session)

keyIs(session, userId) == session.userId = userId

\* this.sessions.delete(userId)
sessionsDelete(roster, userId) ==
  LET kept(session) == ~keyIs(session, userId) IN SelectSeq(roster, kept)

NoFanOut == [roster |-> <<>>, attempted |-> {}, delivered |-> {}, raised |-> FALSE]

\* A loop that passes over the excluded user only.
skippedExcludedOnly(session, excludeUserId) ==
  excludeUserId # NoUser /\ session.userId = excludeUserId

\* if (excludeUserId && odId === excludeUserId) continue;
\* if (session.quit) continue;
skipped(session, excludeUserId) ==
  (excludeUserId # NoUser /\ session.userId = excludeUserId) \/ session.quit

\* A fan-out loop without try/catch: the first failing send ends the loop and
\* raises to the caller.
RECURSIVE broadcastAborting(_, _, _, _, _)
broadcastAborting(roster, n, type, excludeUserId, acc) ==
  IF n > Len(roster) THEN [acc EXCEPT !.roster = roster]
  ELSE LET session == roster[n] IN
       IF skipped(session, excludeUserId)
       THEN broadcastAborting(roster, n + 1, type, excludeUserId, acc)
       ELSE IF sendSucceeds(session.ws)
       THEN broadcastAborting(roster, n + 1, type, excludeUserId,
                              [acc EXCEPT !.attempted = @ \cup {session.ws},
                                          !.delivered = @ \cup {<<session.ws, type>>}])
       ELSE [acc EXCEPT !.roster = roster, !.attempted = @ \cup {session.ws},
                        !.raised = TRUE]

\* broadcast(message, excludeUserId?): for (const [odId, session] of
\* this.sessions), from entry n on.  The excluded user and the sessions marked
\* quit are skipped; a send that throws marks the session quit and the loop
\* goes on.
RECURSIVE broadcast(_, _, _, _, _)
broadcast(roster, n, type, excludeUserId, acc) ==
  IF n > Len(roster) THEN [acc EXCEPT !.roster = roster]
  ELSE LET session == roster[n] IN
       IF skipped(session, excludeUserId)
       THEN broadcast(roster, n + 1, type, excludeUserId, acc)
       ELSE IF sendSucceeds(session.ws)
       THEN broadcast(roster, n + 1, type, excludeUserId,
                      [acc EXCEPT !.attempted = @ \cup {session.ws},
                                  !.delivered = @ \cup {<<session.ws, type>>}])
       ELSE broadcast([roster EXCEPT ![n].quit = TRUE], n + 1, type, excludeUserId,
                      [acc EXCEPT !.attempted = @ \cup {session.ws}])

\* A targeted send that goes to every session.
sendToUserAll(roster, userId, type) == broadcast(roster, 1, type, NoUser, NoFanOut)

\* sendToUser(userId, message): the session stored under userId, if it is
\* not marked quit, is sent the message; a send that throws marks it quit.
sendToUser(roster, userId, type) ==
  IF \E n \in 1..Len(roster) : roster[n].userId = userId /\ ~roster[n].quit
  THEN LET n == CHOOSE m \in 1..Len(roster) : roster[m].userId = userId
           ws == roster[n].ws
       IN IF sendSucceeds(ws)
          THEN [roster |-> roster, attempted |-> {ws}, delivered |-> {<<ws, type>>},
                raised |-> FALSE]
          ELSE [roster |-> [roster EXCEPT ![n].quit = TRUE], attempted |-> {ws},
                delivered |-> {}, raised |-> FALSE]
  ELSE [NoFanOut EXCEPT !.roster = roster]

Op(kind, userId, ws, type, exclude, out) ==
  [kind |-> kind, userId |-> userId, ws |-> ws, type |-> type, exclude |-> exclude,
   before |-> sessions, open |-> {w \in SocketIds : sockets[w].state = "open"},
   attempted |-> out.attempted, delivered |-> out.delivered, raised |-> out.raised,
   welcome |-> NoWelcome]

\* A notification of the new connection that excludes no one.
connectNoticeEcho(stored, userId) == broadcast(stored, 1, "user_connected", NoUser, NoFanOut)

\* this.broadcast({ type: 'user_connected', ... }, userId)
connectNotice(stored, userId) == broadcast(stored, 1, "user_connected", userId, NoFanOut)

\* server.send({ type: 'connected', data: { connectedUsers:
\* Array.from(this.sessions.keys()) } }), the statement after the broadcast of
\* user_connected: out is the outcome of that broadcast.
welcomeMessage(out) ==
  [connectedUsers |-> {out.roster[n].userId : n \in 1..Len(out.roster)},
   after |-> {d[1] : d \in out.delivered}]

\* new WebSocketPair(): the next server socket.
freshSocket ==
  CHOOSE ws \in SocketIds :
    sockets[ws].state = "none" /\ \A w \in SocketIds : w < ws => sockets[w].state # "none"

\* handleWebSocket(request): the session is stored under userId, the others
\* are notified, the new socket is sent the welcome message.
HandleWebSocket ==
  \E userId \in Subjects :
    /\ \E ws \in SocketIds : sockets[ws].state = "none"
    /\ LET server == freshSocket
           stored == sessionsSet(sessions, Session(userId, server))
           out == connectNotice(stored, userId)
       IN /\ sockets' = [sockets EXCEPT ![server] = [state |-> "open", userId |-> userId]]
          /\ sessions' = out.roster
          /\ hubOp' = [Op("connect", userId, server, "user_connected", userId,
                            [out EXCEPT !.delivered = @ \cup {<<server, "connected">>}])
                        EXCEPT !.welcome = welcomeMessage(out)]
    /\ UNCHANGED <<ledgerVars, friendships, fault, observed, client, snapshot, outputs>>

\* The transport of an open socket goes down (the client closed it or the
\* connection was lost); the events are dispatched later.
TransportDown ==
  \E ws \in SocketIds :
    /\ sockets[ws].state = "open"
    /\ sockets' = [sockets EXCEPT ![ws].state = "down"]
    /\ UNCHANGED <<ledgerVars, friendships, fault, observed, client, snapshot, outputs, sessions, hubOp>>

\* server.addEventListener('close', ...): the entry under the userId of the
\* closure is deleted and the others are told.
CloseListener ==
  \E ws \in SocketIds :
    /\ sockets[ws].state = "down"
    /\ LET userId == sockets[ws].userId
           out == broadcast(sessionsDelete(sessions, userId), 1, "user_disconnected",
                            userId, NoFanOut)
       IN /\ sessions' = out.roster
          /\ hubOp' = Op("close", userId, ws, "user_disconnected", userId, out)
    /\ sockets' = [sockets EXCEPT ![ws].state = "closed"]
    /\ UNCHANGED <<ledgerVars, friendships, fault, observed, client, snapshot, outputs>>

\* webSocketClose(ws, code, reason): the session of this socket, if the Map
\* holds it, is deleted and every session is told.
WebSocketClose ==
  \E ws \in SocketIds :
    /\ sockets[ws].state = "down"
    /\ LET found == \E n \in 1..Len(sessions) : sessions[n].ws = ws
           userId == sockets[ws].userId
           out == IF found
                  THEN broadcast(sessionsDelete(sessions, userId), 1, "user_disconnected",
                                 NoUser, NoFanOut)
                  ELSE [NoFanOut EXCEPT !.roster = sessions]
       IN /\ sessions' = out.roster
          /\ hubOp' = Op("close", userId, ws, "user_disconnected", NoUser, out)
    /\ sockets' = [sockets EXCEPT ![ws].state = "closed"]
    /\ UNCHANGED <<ledgerVars, friendships, fault, observed, client, snapshot, outputs>>

\* server.addEventListener('error', ...): the entry under the userId of the
\* closure is deleted.
ErrorListener ==
  \E ws \in SocketIds :
    /\ sockets[ws].state = "down"
    /\ sessions' = sessionsDelete(sessions, sockets[ws].userId)
    /\ hubOp' = Op("error", sockets[ws].userId, ws, "none", NoUser,
                   [NoFanOut EXCEPT !.roster = sessions'])
    /\ UNCHANGED <<ledgerVars, friendships, fault, observed, client, snapshot, outputs, sockets>>

\* webSocketError(ws, error): console.error only.
WebSocketError ==
  \E ws \in SocketIds :
    /\ sockets[ws].state = "down"
    /\ hubOp' = Op("error", sockets[ws].userId, ws, "none", NoUser,
                   [NoFanOut EXCEPT !.roster = sessions])
    /\ UNCHANGED <<ledgerVars, friendships, fault, observed, client, snapshot, outputs, sessions, sockets>>

\* fetch(request) with POST /broadcast: this.broadcast(data).
HttpBroadcast ==
  /\ sessions # <<>>
  /\ LET out == broadcast(sessions, 1, "expense_added", NoUser, NoFanOut)
     IN /\ sessions' = out.roster
        /\ hubOp' = Op("broadcast", NoUser, 0, "expense_added", NoUser, out)
  /\ UNCHANGED <<ledgerVars, friendships, fault, observed, client, snapshot, outputs, sockets>>

\* A handler that relays a message of unknown type to every session.
handleMessageRelaying(userId, type) ==
  CASE type = "ping" -> sendToUser(sessions, userId, "pong")
    [] type = "request_sync" -> sendToUser(sessions, userId, "sync_response")
    [] type = "typing" -> broadcast(sessions, 1, "user_typing", userId, NoFanOut)
    [] OTHER -> broadcast(sessions, 1, type, NoUser, NoFanOut)

\* handleMessage(userId, message) for a message received on an open socket,
\* userId being the user the socket was accepted for.
handleMessage(userId, type) ==
  CASE type = "ping" -> sendToUser(sessions, userId, "pong")
    [] type = "request_sync" -> sendToUser(sessions, userId, "sync_response")
    [] type = "typing" -> broadcast(sessions, 1, "user_typing", userId, NoFanOut)
    [] type = "expense_added" -> broadcast(sessions, 1, "expense_added", NoUser, NoFanOut)
    [] OTHER -> [NoFanOut EXCEPT !.roster = sessions]

\* server.addEventListener('message', ...): JSON.parse(event.data) and
\* handleMessage inside try/catch; a frame that does not parse is logged.
messageListener(userId, frame) ==
  IF frame = "malformed" THEN [NoFanOut EXCEPT !.roster = sessions]
  ELSE handleMessage(userId, frame)

replyType(type) ==
  CASE type = "ping" -> "pong"
    [] type = "request_sync" -> "sync_response"
    [] type = "typing" -> "user_typing"
    [] OTHER -> type

HandleMessage ==
  \E ws \in SocketIds, type \in Frames :
    /\ sockets[ws].state = "open"
    /\ LET userId == sockets[ws].userId
           out == messageListener(userId, type)
       IN /\ sessions' = out.roster
          /\ hubOp' = Op(IF type \in {"ping", "request_sync"} THEN "send"
                         ELSE IF type \in {"typing", "expense_added"} THEN "broadcast"
                         ELSE "ignored",
                         userId, ws, replyType(type),
                         IF type = "typing" THEN userId ELSE NoUser, out)
    /\ UNCHANGED <<ledgerVars, friendships, fault, observed, client, snapshot, outputs, sockets>>

NextHub ==
  \/ HandleWebSocket
  \/ TransportDown
  \/ CloseListener
  \/ WebSocketClose
  \/ ErrorListener
  \/ WebSocketError
  \/ HttpBroadcast
  \/ HandleMessage

SpecHub == Init /\ [][NextHub]_vars

(* ------------------------ SplitCostClient ------------------------------ *)
\* this.maxReconnectAttempts = 5 and this.reconnectDelay = 1000 (ms).
maxReconnectAttempts == 5

reconnectDelay == 1000

\* A delay that does not grow.
backoffDelayFlat(reconnectAttempts) == reconnectDelay

\* this.reconnectDelay * Math.pow(2, this.reconnectAttempts - 1)
backoffDelay(reconnectAttempts) == reconnectDelay * 2 ^ (reconnectAttempts - 1)

\* new WebSocket(endpoint): the next socket of the client, 0 when the
\* sockets of the model are used up.
nextSocket(c) ==
  IF \A w \in ClientSockets : c.readyState[w] # "none" THEN 0
  ELSE CHOOSE w \in ClientSockets :
         c.readyState[w] = "none" /\ \A v \in ClientSockets : v < w => c.readyState[v] # "none"

\* if (this.ws && this.ws.readyState === WebSocket.OPEN) return;
returnsEarly(c) == c.ws # 0 /\ c.readyState[c.ws] = "open"

\* connect(groupId): nothing if this.ws is OPEN; otherwise this.ws becomes a
\* new WebSocket, with onopen, onmessage, onclose and onerror set on it.
connect(c) ==
  IF returnsEarly(c) THEN c
  ELSE LET w == nextSocket(c)
       IN [c EXCEPT !.ws = w, !.readyState[w] = "connecting"]

\* The application calls connect().
AppConnect ==
  /\ returnsEarly(client) \/ nextSocket(client) # 0
  /\ client' = [connect(client) EXCEPT !.stopped = FALSE]
  /\ UNCHANGED <<ledgerVars, friendships, fault, observed, snapshot, outputs, sessions, sockets, hubOp>>

\* ws.onopen: the counter is reset (and the ping interval started).
SocketOpens ==
  \E w \in ClientSockets :
    /\ client.readyState[w] = "connecting"
    /\ client' = [client EXCEPT !.readyState[w] = "open", !.reconnectAttempts = 0]
    /\ UNCHANGED <<ledgerVars, friendships, fault, observed, snapshot, outputs, sessions, sockets, hubOp>>

\* setTimeout(callback, delay): one more pending timer.  Pending timers are
\* told apart by their delays only, so they are kept in ascending order.
setTimeout(timers, delay) ==
  LET n == Cardinality({i \in 1..Len(timers) : timers[i] <= delay})
  IN SubSeq(timers, 1, n) \o <<delay>> \o SubSeq(timers, n + 1, Len(timers))

\* ws.onclose: below the maximum the counter is incremented and
\* setTimeout(() => this.connect(groupId), delay) is called.
onclose(c) ==
  IF c.reconnectAttempts < maxReconnectAttempts
  THEN [c EXCEPT !.reconnectAttempts = @ + 1,
                 !.timers = setTimeout(@, backoffDelay(c.reconnectAttempts + 1))]
  ELSE c

\* The close event of a socket that failed to open, was closed by the server
\* or the network, or was closed by disconnect().
SocketCloses ==
  \E w \in ClientSockets :
    /\ client.readyState[w] \in {"connecting", "open", "closing"}
    /\ client' = onclose([client EXCEPT !.readyState[w] = "closed"])
    /\ UNCHANGED <<ledgerVars, friendships, fault, observed, snapshot, outputs, sessions, sockets, hubOp>>

\* A timer set by onclose fires: this.connect(groupId).
TimerFires ==
  \E i \in 1..Len(client.timers) :
    LET rest == [client EXCEPT !.timers = SubSeq(@, 1, i - 1) \o SubSeq(@, i + 1, Len(@))]
    IN /\ returnsEarly(rest) \/ nextSocket(rest) # 0
       /\ client' = connect(rest)
       /\ UNCHANGED <<ledgerVars, friendships, fault, observed, snapshot, outputs, sessions, sockets, hubOp>>

\* disconnect(): if (this.ws) { this.ws.close(); this.ws = null; }
disconnect(c) ==
  IF c.ws # 0
  THEN [c EXCEPT !.ws = 0,
                 !.readyState[c.ws] = IF @ \in {"connecting", "open"} THEN "closing" ELSE @,
                 !.stopped = @ \/ c.readyState[c.ws] = "open"]
  ELSE c

\* The application calls disconnect().
AppDisconnect ==
  /\ client.ws # 0
  /\ client' = disconnect(client)
  /\ UNCHANGED <<ledgerVars, friendships, fault, observed, snapshot, outputs, sessions, sockets, hubOp>>

\* logout(): the token and the user id are cleared (they are not part of
\* the connection's state), then this.disconnect().
AppLogout ==
  /\ client.ws # 0
  /\ client' = disconnect(client)
  /\ UNCHANGED <<ledgerVars, friendships, fault, observed, snapshot, outputs, sessions, sockets, hubOp>>

NextClient ==
  \/ AppConnect
  \/ SocketOpens
  \/ SocketCloses
  \/ TimerFires
  \/ AppDisconnect
  \/ AppLogout

SpecClient == Init /\ [][NextClient]_vars

(* ------------------------ properties ----------------------------------- *)
Abs(x) == IF x < 0 THEN 0 - x ELSE x

\* The sum of the entries of a pair over a set of groups.
RECURSIVE GroupSum(_, _, _)
GroupSum(S, a, b) ==
  IF S = {} THEN 0
  ELSE LET g == CHOOSE x \in S : TRUE IN Amt(<<a, b, g>>) + GroupSum(S \ {g}, a, b)

\* C1: mirror invariant.  Whenever no request is in flight (every expense
\* create, update, delete and settlement confirm so far has completed), for
\* every pair of users and every scope the two directed entries sum to 0.
MirrorInvariant ==
  Quiescent =>
    \A a \in Users, b \in Users, s \in Scopes : Amt(<<a, b, s>>) + Amt(<<b, a, s>>) = 0

\* Witness of C1: an expense has been applied and a settlement confirmed, and
\* some pair has a non-zero balance.
MirrorWitness ==
  /\ Quiescent
  /\ \E e \in ExpenseIds : expenses[e].exists
  /\ \E s \in SettlementIds : settlements[s].status = "confirmed" /\ applied[s] = 1
  /\ \E k \in Keys : Amt(k) # 0

\* C2: a completed confirmation of a settlement of amount x from F to T in
\* scope s has added -x to entry(T,F,s) and +x to entry(F,T,s); if F owed T
\* exactly x before, both entries are 0 afterwards.
ConfirmAdjustment ==
  (Quiescent /\ last.kind = "confirm" /\ last.resp = 200) =>
    LET st == settlements[last.id]
        tf == <<st.to_user_id, st.from_user_id, st.group_id>>
        ft == <<st.from_user_id, st.to_user_id, st.group_id>>
    IN /\ Amt(tf) = last.bal[tf] - st.amount
       /\ Amt(ft) = last.bal[ft] + st.amount
       /\ (last.bal[tf] = st.amount /\ last.bal[ft] = 0 - st.amount) => (Amt(tf) = 0 /\ Amt(ft) = 0)

\* C3: single application, sequentially.  The first confirm of a pending
\* settlement changes the pair's entries in its scope by the amount; a confirm
\* issued after it has completed is refused (404) and leaves every ledger
\* entry and the status as they were, so the adjustment ran once.
SingleApplication ==
  (Quiescent /\ last.kind = "confirm" /\ last.resp # 0
     /\ settlements[last.id].status = "confirmed") =>
    LET st == settlements[last.id]
        tf == <<st.to_user_id, st.from_user_id, st.group_id>>
        ft == <<st.from_user_id, st.to_user_id, st.group_id>>
    IN /\ applied[last.id] = 1
       /\ \/ /\ last.resp = 200
             /\ Abs(Amt(tf) - last.bal[tf]) = st.amount
             /\ Abs(Amt(ft) - last.bal[ft]) = st.amount
          \/ /\ last.resp = 404
             /\ AmtOf(balances) = last.bal

\* C4: exactly once under concurrency.  However confirm requests for the same
\* settlement interleave, its ledger adjustment never runs a second time, and
\* once the requests have completed a confirmed settlement's adjustment has
\* run exactly once.
ExactlyOnce ==
  \A s \in SettlementIds :
    /\ applied[s] <= 1
    /\ (Quiescent /\ settlements[s].status = "confirmed") => applied[s] = 1

\* C5: whenever no request is in flight, a settlement's adjustment has been
\* applied to the ledger if and only if its status is confirmed, also when a
\* confirm interleaves with a reject or a cancel of the same settlement.
EffectIffConfirmed ==
  Quiescent =>
    \A s \in SettlementIds : (applied[s] >= 1) <=> (settlements[s].status = "confirmed")

\* C6: only the confirm transition touches the ledger.  A step that inserts a
\* settlement, and every step of a reject or cancel request, leaves every
\* ledger row of every scope unchanged.
SettlementInserted ==
  \E s \in SettlementIds : settlements[s].status = "none" /\ settlements'[s].status = "pending"

RejectOrCancelStep ==
  \E r \in Slots :
    /\ reqs'[r] # reqs[r]
    /\ reqs[r].kind \in {"reject", "cancel"} \/ reqs'[r].kind \in {"reject", "cancel"}

OnlyConfirmTouchesLedger ==
  [][(SettlementInserted \/ RejectOrCancelStep) => balances' = balances]_vars

\* Witness of C6: a settlement was created, another rejected or cancelled,
\* while the ledger holds a non-zero balance.
OnlyConfirmWitness ==
  /\ Quiescent
  /\ last.kind \in {"reject", "cancel"} /\ last.resp = 200
  /\ settlements[last.id].status \in {"rejected", "removed"}
  /\ \E k \in Keys : Amt(k) # 0

\* C7: confirmed and rejected are terminal.  No step changes the status of a
\* confirmed or rejected settlement or removes it, and the only status changes
\* of a stored settlement are pending -> confirmed, rejected or removed.
TerminalStatuses ==
  [][\A s \in SettlementIds :
       /\ settlements[s].status \in {"confirmed", "rejected"}
            => settlements'[s].status = settlements[s].status
       /\ (settlements[s].status # "none" /\ settlements'[s].status # settlements[s].status)
            => /\ settlements[s].status = "pending"
               /\ settlements'[s].status \in {"confirmed", "rejected", "removed"}]_vars

\* C8: per-group / aggregate consistency.  Whenever no request is in flight
\* and every expense and every confirmed settlement so far carried a group id,
\* for every pair the entry without group equals the sum of the pair's group
\* entries.
OnlyGroupScoped ==
  /\ \A e \in ExpenseIds : expenses[e].exists => expenses[e].group_id # Null
  /\ \A s \in SettlementIds : applied[s] > 0 => settlements[s].group_id # Null

AggregateConsistency ==
  (Quiescent /\ OnlyGroupScoped) =>
    \A a \in Users, b \in Users : Amt(<<a, b, Null>>) = GroupSum(Groups, a, b)

\* C9: expense creation.  After a completed creation, every entry has changed
\* by exactly this much: for each split whose participant is not the payer,
\* +owed on entry(payer, participant) and -owed on entry(participant, payer),
\* in the expense's scope and in the aggregate scope; nothing for the payer's
\* own split and nothing for any other pair or scope.
RECURSIVE OwedBy(_, _, _, _)
OwedBy(splits, payer, owner, friend) ==
  IF splits = <<>> THEN 0
  ELSE LET sp == Head(splits)
           d == IF sp.user_id = payer THEN 0
                ELSE IF owner = payer /\ friend = sp.user_id THEN sp.amount
                ELSE IF owner = sp.user_id /\ friend = payer THEN 0 - sp.amount
                ELSE 0
       IN d + OwedBy(Tail(splits), payer, owner, friend)

ExpenseContribution(e, k) ==
  IF k[3] \in {expenses[e].group_id, Null}
  THEN OwedBy(expense_splits[e], expenses[e].paid_by, k[1], k[2])
  ELSE 0

ExpenseCreationEffect ==
  (Quiescent /\ last.kind = "create_expense" /\ last.resp = 200) =>
    \A k \in Keys : Amt(k) - last.bal[k] = ExpenseContribution(last.id, k)

\* Witness of C9: 60 paid by U1 and split 20/20/20 among U1, U2 and U3
\* without group gives entry(U1,U2) = +20, entry(U1,U3) = +20 and
\* entry(U2,U1) = -20.
ScenarioA ==
  /\ Quiescent /\ last.kind = "create_expense" /\ last.resp = 200
  /\ expenses[last.id].paid_by = "U1" /\ expenses[last.id].group_id = Null
  /\ expense_splits[last.id] = <<Split("U1", 20), Split("U2", 20), Split("U3", 20)>>
  /\ Amt(<<"U1", "U2", Null>>) = 20
  /\ Amt(<<"U1", "U3", Null>>) = 20
  /\ Amt(<<"U2", "U1", Null>>) = -20

\* C10: reversal round trip.  After an expense was created and then directly
\* deleted, every ledger entry (group and aggregate scope, both directions)
\* has the value it had before the creation, whatever that value was, and the
\* expense row is kept with deleted = true.
ReversalRoundTrip ==
  (Quiescent /\ last.kind = "delete_expense" /\ last.chained /\ last.resp = 200) =>
    /\ AmtOf(balances) = last.bal
    /\ expenses[last.id].exists /\ expenses[last.id].is_deleted

\* Witness of C10: the round trip of an expense that did adjust the ledger,
\* ending on a ledger that was not empty before the creation.
RoundTripWitness ==
  /\ Quiescent /\ last.kind = "delete_expense" /\ last.chained /\ last.resp = 200
  /\ \E i \in 1..Len(expense_splits[last.id]) :
       expense_splits[last.id][i].user_id # expenses[last.id].paid_by
  /\ \E k \in Keys : last.bal[k] # 0

\* C11: update = reverse the stored splits, then apply the new ones.  After a
\* completed update or delete of an expense, with no settlement applied so
\* far, every ledger entry is the sum of the contributions of the stored
\* splits of the live expenses against their stored payers; so an updated
\* expense contributes its new splits, and its deletion leaves the entries it
\* touched at their value from before it was created.
RECURSIVE LiveContribution(_, _)
LiveContribution(S, k) ==
  IF S = {} THEN 0
  ELSE LET e == CHOOSE x \in S : TRUE
       IN (IF expenses[e].exists /\ ~expenses[e].is_deleted
           THEN ExpenseContribution(e, k) ELSE 0) + LiveContribution(S \ {e}, k)

UpdateReversesThenApplies ==
  (/\ Quiescent
   /\ last.kind \in {"update_expense", "delete_expense"} /\ last.resp = 200
   /\ \A s \in SettlementIds : applied[s] = 0) =>
    \A k \in Keys : Amt(k) = LiveContribution(ExpenseIds, k)

\* The change of participant p's net balance when the transactions are paid:
\* the payer's balance rises by the amount, the payee's falls by it.
RECURSIVE NetEffect(_, _)
NetEffect(transactions, p) ==
  IF transactions = <<>> THEN 0
  ELSE LET t == Head(transactions)
       IN (IF t.from_user_id = p THEN t.amount ELSE 0)
          - (IF t.to_user_id = p THEN t.amount ELSE 0)
          + NetEffect(Tail(transactions), p)

NetOf(netBalance, p) ==
  IF \E n \in 1..Len(netBalance) : netBalance[n].id = p
  THEN netBalance[CHOOSE n \in 1..Len(netBalance) : netBalance[n].id = p].amount
  ELSE 0

\* C12: simplifier correctness.  The net balances of a snapshot sum to zero;
\* paying every transaction a run returned brings every participant's net
\* balance to zero, and the run returned at most n - 1 transactions, n being
\* the number of participants with a non-zero net balance.
SimplifierCorrectness ==
  \A n \in 1..Len(outputs) :
    LET netBalance == netBalanceOf(snapshot, <<>>)
        transactions == outputs[n].simplified
        nonzero == Cardinality({p \in Participants : NetOf(netBalance, p) # 0})
    IN /\ \A p \in Participants : NetOf(netBalance, p) + NetEffect(transactions, p) = 0
       /\ nonzero >= 1 => Len(transactions) <= nonzero - 1

\* The list ordered by descending amount, equal amounts in input order: the
\* place of an element is one more than the number of elements that are
\* larger or are equal and earlier.
RankSort(list) ==
  LET place(n) == 1 + Cardinality({m \in 1..Len(list) :
                                     \/ list[m].amount > list[n].amount
                                     \/ list[m].amount = list[n].amount /\ m < n})
  IN [q \in 1..Len(list) |-> list[CHOOSE n \in 1..Len(list) : place(n) = q]]

Transfer(debtor, creditor, amount) ==
  [from_user_id |-> debtor.id, to_user_id |-> creditor.id, amount |-> amount]

\* Reference algorithm, sorted walk: the first debtor and the first creditor
\* of the sorted lists that still have a remainder are matched for the smaller
\* of the two remainders; a party leaves its list when nothing remains.
RECURSIVE SortedWalk(_, _)
SortedWalk(creditors, debtors) ==
  IF creditors = <<>> \/ debtors = <<>> THEN <<>>
  ELSE LET c == Head(creditors)
           d == Head(debtors)
           amount == Min(c.amount, d.amount)
           cs == IF c.amount - amount < Epsilon THEN Tail(creditors)
                 ELSE <<[c EXCEPT !.amount = @ - amount]>> \o Tail(creditors)
           ds == IF d.amount - amount < Epsilon THEN Tail(debtors)
                 ELSE <<[d EXCEPT !.amount = @ - amount]>> \o Tail(debtors)
       IN (IF amount > Epsilon THEN <<Transfer(d, c, amount)>> ELSE <<>>) \o SortedWalk(cs, ds)

\* The party of a list with the largest remainder, the earliest of them
\* among equal remainders.
Largest(list) ==
  CHOOSE n \in 1..Len(list) :
    \A m \in 1..Len(list) :
      \/ list[m].amount < list[n].amount
      \/ list[m].amount = list[n].amount /\ n <= m

Without(list, n) == SubSeq(list, 1, n - 1) \o SubSeq(list, n + 1, Len(list))

\* Reference algorithm, largest remaining first: every transaction is between
\* the debtor and the creditor whose remainders are the largest at that time.
RECURSIVE LargestRemainingFirst(_, _)
LargestRemainingFirst(creditors, debtors) ==
  IF creditors = <<>> \/ debtors = <<>> THEN <<>>
  ELSE LET i == Largest(creditors)
           j == Largest(debtors)
           amount == Min(creditors[i].amount, debtors[j].amount)
           cs == IF creditors[i].amount - amount < Epsilon THEN Without(creditors, i)
                 ELSE [creditors EXCEPT ![i].amount = @ - amount]
           ds == IF debtors[j].amount - amount < Epsilon THEN Without(debtors, j)
                 ELSE [debtors EXCEPT ![j].amount = @ - amount]
       IN (IF amount > Epsilon THEN <<Transfer(debtors[j], creditors[i], amount)>> ELSE <<>>)
          \o LargestRemainingFirst(cs, ds)

RunReturned == Len(outputs') = Len(outputs) + 1

Imbalanced(run) ==
  \/ \E n \in run.i..Len(run.creditors) : run.creditors[n].amount > Epsilon
  \/ \E n \in run.j..Len(run.debtors) : run.debtors[n].amount > Epsilon

ImbalanceSurfaced ==
  \A n \in 1..Len(outputs) : Imbalanced(simplifyRun(snapshot)) => outputs[n].error

(* ------------------------ properties of the hub ------------------------ *)
\* The sockets of the sessions of a roster that a fan-out excluding user
\* exclude has to try: those not marked quit and not stored under exclude.
Addressed(roster, exclude) ==
  {roster[n].ws : n \in {m \in 1..Len(roster) :
                           ~roster[m].quit /\ ~(exclude # NoUser /\ roster[m].userId = exclude)}}

Roster(roster) == {<<roster[n].userId, roster[n].ws>> : n \in 1..Len(roster)}

\* C16: connect notification.  When a user's session joins, user_connected
\* is delivered to every session of another user that was already stored, is
\* not marked quit and has an open socket, and is not delivered to the socket
\* of the joining session.
ConnectNotification ==
  hubOp.kind = "connect" =>
    /\ \A ws \in Addressed(hubOp.before, hubOp.userId) \cap hubOp.open :
         <<ws, "user_connected">> \in hubOp.delivered
    /\ <<hubOp.ws, "user_connected">> \notin hubOp.delivered

\* Witness of C16 (scenario D): the second session joins while the first is
\* active; the first is sent user_connected, the second the welcome message.
ScenarioD ==
  /\ hubOp.kind = "connect"
  /\ Len(hubOp.before) = 1
  /\ hubOp.before[1].userId # hubOp.userId
  /\ hubOp.delivered = {<<hubOp.before[1].ws, "user_connected">>, <<hubOp.ws, "connected">>}

\* C17: broadcast with failure isolation.  A broadcast tries every stored
\* session that is not marked quit and not the excluded user's and no other,
\* delivers to each of them whose socket is open whatever sends failed before
\* it, and does not raise.
BroadcastIsolation ==
  hubOp.kind = "broadcast" =>
    LET addressed == Addressed(hubOp.before, hubOp.exclude)
    IN /\ hubOp.attempted = addressed
       /\ hubOp.delivered = {<<ws, hubOp.type>> : ws \in addressed \cap hubOp.open}
       /\ ~hubOp.raised

\* Witness of C17: a broadcast whose send to an earlier session failed and
\* whose send to a later session was delivered.
IsolationWitness ==
  /\ hubOp.kind = "broadcast"
  /\ \E m, n \in 1..Len(hubOp.before) :
       /\ m < n
       /\ hubOp.before[m].ws \in hubOp.attempted \ hubOp.open
       /\ <<hubOp.before[n].ws, hubOp.type>> \in hubOp.delivered

\* C18: session departure.  When the transport of a stored session that is
\* not marked quit closes or errors, the handled event leaves no session of
\* that socket in the Map, and user_disconnected is delivered to every
\* session that remains, is not marked quit and has an open socket.
SessionDeparture ==
  (/\ hubOp.kind \in {"close", "error"}
   /\ \E n \in 1..Len(hubOp.before) : hubOp.before[n].ws = hubOp.ws /\ ~hubOp.before[n].quit) =>
    /\ \A n \in 1..Len(sessions) : sessions[n].ws # hubOp.ws
    /\ \A ws \in Addressed(sessions, NoUser) \cap hubOp.open :
         <<ws, "user_disconnected">> \in hubOp.delivered

\* C19: targeted send.  sendToUser delivers the message to the socket of the
\* session stored under the user, if that session is not marked quit and its
\* socket is open, and to no other socket; otherwise it delivers nothing; it
\* never raises and never adds or removes a session.
TargetedSend ==
  hubOp.kind = "send" =>
    LET target == {hubOp.before[n].ws : n \in {m \in 1..Len(hubOp.before) :
                                                 /\ hubOp.before[m].userId = hubOp.userId
                                                 /\ ~hubOp.before[m].quit}} \cap hubOp.open
    IN /\ Cardinality(target) <= 1
       /\ hubOp.delivered = {<<ws, hubOp.type>> : ws \in target}
       /\ ~hubOp.raised
       /\ Roster(sessions) = Roster(hubOp.before)

\* Witness of C19: a send to a user without a stored session, while another
\* user's session is active, delivers nothing.
SilentSendWitness ==
  /\ hubOp.kind = "send"
  /\ ~hasSession(hubOp.before, hubOp.userId)
  /\ Addressed(hubOp.before, NoUser) \cap hubOp.open # {}
  /\ hubOp.delivered = {}

(* ------------------------ properties of the fan-out -------------------- *)
\* The users an expense involves: its payer and the users of its splits.
ExpenseParticipants(e) ==
  {expenses[e].paid_by} \cup {expense_splits[e][n].user_id : n \in 1..Len(expense_splits[e])}

MutationScope ==
  IF last.kind \in {"create_expense", "update_expense", "delete_expense"}
  THEN expenses[last.id].group_id
  ELSE settlements[last.id].group_id

ActingUser ==
  CASE last.kind = "create_expense" -> last.actor
    [] last.kind \in {"update_expense", "delete_expense"} -> expenses[last.id].paid_by
    [] last.kind = "create_settlement" -> settlements[last.id].from_user_id
    [] OTHER -> settlements[last.id].to_user_id

MutationParticipants ==
  IF last.kind \in {"create_expense", "update_expense", "delete_expense"}
  THEN ExpenseParticipants(last.id)
  ELSE {settlements[last.id].from_user_id, settlements[last.id].to_user_id}

\* C20: cross-channel fan-out.  A completed expense create, update or delete
\* and a completed settlement create or confirm with a group broadcast exactly
\* once, to the channel of that group; without group they broadcast exactly
\* once to the user channel of every participant other than the acting user
\* and to no other channel.
CrossChannelFanOut ==
  (/\ Quiescent /\ last.resp = 200
   /\ last.kind \in {"create_expense", "update_expense", "delete_expense",
                     "create_settlement", "confirm"}) =>
    IF MutationScope # Null
    THEN last.casts = <<GroupChannel(MutationScope)>>
    ELSE /\ {last.casts[n] : n \in 1..Len(last.casts)} =
              {UserChannel(u) : u \in MutationParticipants \ {ActingUser}}
         /\ \A m, n \in 1..Len(last.casts) : last.casts[m] = last.casts[n] => m = n

(* ------------------------ properties under failures -------------------- *)
ExpenseKinds == {"create_expense", "update_expense", "delete_expense"}

\* C21: no partial commit on store failure.  After an expense creation or a
\* settlement confirmation one of whose writes threw (the request was
\* answered 500 before its statements all ran), the ledger is what it was when
\* the request began, and the expense row and split rows of the creation are
\* absent, the settlement of the confirmation is still pending.
NoPartialCommit ==
  (last.resp = 500 /\ ~last.committed) =>
    /\ last.kind = "create_expense" =>
         /\ AmtOf(balances) = last.bal
         /\ ~expenses[last.id].exists
         /\ expense_splits[last.id] = <<>>
    /\ last.kind = "confirm" =>
         /\ AmtOf(balances) = last.bal
         /\ settlements[last.id].status = "pending"

\* C22: a broadcast failure never aborts the mutation.  When the hub rejects
\* the broadcasts, every expense create, update and delete and every
\* settlement create and confirm whose statements all ran is answered 200.
BroadcastNeverAborts ==
  (/\ fault = "hub" /\ last.committed
   /\ last.kind \in ExpenseKinds \cup {"create_settlement", "confirm"}) =>
    last.resp = 200

\* C23: activity after commit.  An activity row references a stored expense
\* (a deleted one for expense_deleted), and a row is added to the table only
\* by the step in which a handler of that kind for that expense runs its last
\* statement and returns: never while a ledger statement of the mutation is
\* still to run, never by a request that was aborted.
MutationOf(activity_type) ==
  CASE activity_type = "expense_added" -> "create_expense"
    [] activity_type = "expense_updated" -> "update_expense"
    [] OTHER -> "delete_expense"

ActivityAfterCommit ==
  /\ [](\A a \in activities :
          /\ expenses[a.reference_id].exists
          /\ a.activity_type = "expense_deleted" => expenses[a.reference_id].is_deleted)
  /\ [][\A a \in activities' \ activities :
          \E r \in Slots :
            /\ reqs[r].kind = MutationOf(a.activity_type)
            /\ reqs[r].id = a.reference_id
            /\ Len(reqs[r].todo) = 1
            /\ reqs'[r].kind = "idle"
            /\ last'.committed]_vars

\* Witness of C23: the creation of expense 1 moved the ledger and its
\* expense_added row is in the table.
ActivityWitness ==
  /\ Quiescent
  /\ [activity_type |-> "expense_added", reference_id |-> 1] \in activities
  /\ \E k \in Keys : Amt(k) # 0

\* C24: activity emission is best-effort.  When the INSERT INTO activities
\* throws, an expense create, update or delete whose ledger statements all
\* ran is answered 200.
ActivityBestEffort ==
  (fault = "activity" /\ last.committed /\ last.kind \in ExpenseKinds) =>
    last.resp = 200

(* ------------------------ properties of the stored splits -------------- *)
RECURSIVE SumOwed(_)
SumOwed(splits) ==
  IF splits = <<>> THEN 0 ELSE Head(splits).amount + SumOwed(Tail(splits))

\* C25: split-sum invariant.  Whenever no request is in flight, the owed
\* amounts of the stored splits of every stored, non-deleted expense sum to
\* the stored amount of the expense, within 1 cent.
SplitSumInvariant ==
  Quiescent =>
    \A e \in ExpenseIds :
      (expenses[e].exists /\ ~expenses[e].is_deleted) =>
        Abs(SumOwed(expense_splits[e]) - expenses[e].amount) <= 1

(* ------------------------ properties of the authorization -------------- *)
\* C30: settlement authorization.  Every confirm, reject or cancel request
\* either passes its checks, and then the user who sent it is the recipient
\* of the settlement (confirm, reject) or its creator (cancel), or is answered
\* 403 or 404 and leaves the settlements and every ledger entry unchanged: a
\* request of any other user is refused without effect.
SettlementAuthorization ==
  [][(nRequests' = nRequests + 1 /\ last'.kind \in {"confirm", "reject", "cancel"}) =>
       \/ /\ last'.resp = 0
          /\ last'.actor = IF last'.kind = "cancel"
                           THEN settlements[last'.id].from_user_id
                           ELSE settlements[last'.id].to_user_id
       \/ /\ last'.resp \in {403, 404}
          /\ settlements' = settlements
          /\ balances' = balances]_vars

\* Witness of C30: a user other than the recipient asked to confirm a pending
\* settlement and was answered 403.
RefusedConfirmWitness ==
  /\ last.kind = "confirm" /\ last.resp = 403
  /\ settlements[last.id].status = "pending"

(* ------------------------ properties of concurrent requests ------------ *)
\* The slot whose handler runs its next statement in a step.
Advances(r) == reqs[r].kind # "idle" /\ reqs'[r] # reqs[r]

\* C26: no lost update.  While two requests are in flight, every updateBalance
\* statement that runs adds exactly its delta to the amount its entry has at
\* that moment, whatever the other request wrote to the entry in between, and
\* changes no other entry; so an entry ends at its initial amount plus the sum
\* of the deltas of both requests.
NoLostUpdate ==
  [][\A r \in Slots :
       (Advances(r) /\ Head(reqs[r].todo).op = "upsert") =>
         LET st == Head(reqs[r].todo)
         IN \A k \in Keys :
              AmtOf(balances')[k] =
                Amt(k) + (IF k = <<st.user, st.friend, st.scope>> THEN st.amount ELSE 0)]_vars

\* Witness of C26: two requests in flight are both about to adjust the same
\* entry, which the first of them has already adjusted.
SameEntryWitness ==
  /\ reqs[1].kind # "idle" /\ reqs[2].kind # "idle"
  /\ Head(reqs[1].todo).op = "upsert" /\ Head(reqs[2].todo).op = "upsert"
  /\ Head(reqs[1].todo).user = Head(reqs[2].todo).user
  /\ Head(reqs[1].todo).friend = Head(reqs[2].todo).friend
  /\ Head(reqs[1].todo).scope = Head(reqs[2].todo).scope
  /\ Amt(<<"U1", "U2", Null>>) # SharedLedger[<<"U1", "U2", Null>>]

\* C28: a contribution is reversed at most once.  Once the delete requests
\* for an expense that no update has touched have completed and the expense is
\* deleted, the ledger holds the contributions of the live expenses only: the
\* contribution of the deleted expense was taken out exactly once.
ReversedOnce ==
  \A e \in ExpenseIds :
    (/\ Quiescent /\ expenses[e].is_deleted
     /\ [activity_type |-> "expense_updated", reference_id |-> e] \notin activities) =>
      \A k \in Keys : Amt(k) = LiveContribution(ExpenseIds, k)

\* C29: reversal is never interleaved with reapply.  An update in flight
\* has no reversal statement after the statement that deletes the old splits,
\* and once the requests on an expense have completed the ledger holds, for
\* every expense, the contribution of its stored splits if it is not deleted
\* and nothing if it is deleted.
ReversalBeforeReapply ==
  /\ \A r \in Slots : \A m, n \in 1..Len(reqs[r].todo) :
       (/\ reqs[r].kind = "update_expense"
        /\ reqs[r].todo[m].op = "delete_splits"
        /\ reqs[r].todo[n].op = "upsert" /\ n > m) =>
         \E i \in 1..Len(reqs[r].splits) :
           /\ reqs[r].splits[i].user_id \in {reqs[r].todo[n].user, reqs[r].todo[n].friend}
           /\ Abs(reqs[r].todo[n].amount) = reqs[r].splits[i].amount
  /\ Quiescent => \A k \in Keys : Amt(k) = LiveContribution(ExpenseIds, k)

(* ------------------------ properties of the reads ---------------------- *)
\* The ledger after the expense creation in flight has run all its
\* statements: the ledger at its start plus the contribution of its splits.
LedgerAfterCreate ==
  [k \in Keys |->
     last.bal[k] + (IF k[3] \in {reqs[1].group, Null}
                    THEN OwedBy(reqs[1].splits, reqs[1].payer, k[1], k[2])
                    ELSE 0)]

\* C27: snapshot consistency.  A balance read answered while an expense
\* creation is in flight returns the rows of the ledger as it was before the
\* creation or as it is after it, never rows in which only a part of the
\* adjustments of the creation is applied.
SnapshotConsistency ==
  [][(/\ observed'.at # observed.at /\ observed'.resp = 200
      /\ last.kind = "create_expense" /\ last.resp = 0 /\ reqs[1].kind = "create_expense") =>
       IF observed'.kind = "user"
       THEN observed'.rows \in {userRows(last.bal, observed'.userId),
                                userRows(LedgerAfterCreate, observed'.userId)}
       ELSE observed'.rows \in {groupRows(last.bal, reqs[1].group),
                                groupRows(LedgerAfterCreate, reqs[1].group)}]_vars

(* ------------------------ properties of the handshake ------------------ *)
\* The subjects with an active session once the new session is stored: the
\* joining user and every other user whose stored session is not marked quit
\* and has an open socket.
ActiveSubjects ==
  {hubOp.userId} \cup
  {hubOp.before[n].userId : n \in {m \in 1..Len(hubOp.before) :
                                     /\ hubOp.before[m].userId # hubOp.userId
                                     /\ ~hubOp.before[m].quit
                                     /\ hubOp.before[m].ws \in hubOp.open}}

\* C31: connect handshake order and content.  When a session joins, the
\* connected event is sent to it before any existing session is sent
\* user_connected, and its roster is exactly the set of subjects with an
\* active session at that moment.
HandshakeOrder ==
  hubOp.kind = "connect" =>
    /\ hubOp.welcome.after = {}
    /\ hubOp.welcome.connectedUsers = ActiveSubjects

(* ------------------------ properties of quit sessions ------------------ *)
\* A step of the Durable Object itself: every step but the loss of a transport.
HubOperates ==
  \A ws \in SocketIds : ~(sockets[ws].state = "open" /\ sockets'[ws].state = "down")

StoredSockets(roster) == {roster[n].ws : n \in 1..Len(roster)}

\* C32: a session on which a send has failed is never sent to again.  No
\* operation of the hub tries the socket of a session marked quit; a session
\* marked quit stays marked for as long as the Map holds it; and a socket that
\* has left the Map never enters it again (only a new socket does).
QuitIsFinal ==
  [][/\ HubOperates =>
          \A n \in 1..Len(sessions) :
            sessions[n].quit =>
              /\ sessions[n].ws \notin hubOp'.attempted
              /\ \A d \in hubOp'.delivered : d[1] # sessions[n].ws
     /\ \A n \in 1..Len(sessions), m \in 1..Len(sessions') :
          (sessions[n].quit /\ sessions'[m].ws = sessions[n].ws) => sessions'[m].quit
     /\ \A ws \in StoredSockets(sessions') \ StoredSockets(sessions) :
          sockets[ws].state = "none"]_vars

\* Witness of C32: a broadcast found a session marked quit by an earlier
\* failed send, passed over it and delivered to another session.
QuitSkippedWitness ==
  /\ hubOp.kind = "broadcast"
  /\ \E n \in 1..Len(hubOp.before) :
       hubOp.before[n].quit /\ hubOp.before[n].ws \notin hubOp.attempted
  /\ hubOp.delivered # {}

(* ------------------------ properties of dropped frames ----------------- *)
\* C33: malformed or unknown frames are dropped.  A frame that does not parse
\* and a message of a type outside the taxonomy are sent on to no session,
\* raise nothing, and leave the Map of sessions and every socket, the
\* sender's included, as they were.
FramesDropped ==
  /\ [](hubOp.kind = "ignored" =>
          /\ hubOp.attempted = {} /\ hubOp.delivered = {} /\ ~hubOp.raised
          /\ sessions = hubOp.before
          /\ hubOp.ws \in hubOp.open)
  /\ [][(hubOp'.kind = "ignored" /\ HubOperates) =>
          (sessions' = sessions /\ sockets' = sockets)]_vars

\* Witness of C33: a frame that does not parse arrived on the socket of one of
\* two connected users.
MalformedWitness ==
  /\ hubOp.kind = "ignored" /\ hubOp.type = "malformed"
  /\ Len(sessions) = 2
  /\ \A n \in 1..Len(sessions) : sockets[sessions[n].ws].state = "open"

(* ------------------------ properties of replaced connections ----------- *)
\* The most recent connection of its user: no later socket was accepted for
\* the same user.
MostRecent(ws) ==
  \A w \in SocketIds : (w > ws /\ sockets[w].state # "none") => sockets[w].userId # sockets[ws].userId

\* C36: a stale connection's close does not evict a live session.  In every
\* reachable state a user whose most recent connection is open has a session
\* in the Map, and that session holds this connection and is not marked quit.
LiveSessionStored ==
  \A ws \in SocketIds :
    (sockets[ws].state = "open" /\ MostRecent(ws)) =>
      \E n \in 1..Len(sessions) :
        /\ sessions[n].userId = sockets[ws].userId
        /\ sessions[n].ws = ws
        /\ ~sessions[n].quit

(* ------------------------ properties of the client --------------------- *)
\* A step in which the close event of a socket is dispatched.
ClosesASocket ==
  \E w \in ClientSockets : client.readyState[w] # "closed" /\ client'.readyState[w] = "closed"

\* A step in which a socket opens.
OpensASocket ==
  \E w \in ClientSockets : client.readyState[w] # "open" /\ client'.readyState[w] = "open"

\* A step in which a WebSocket is created.
CreatesASocket ==
  \E w \in ClientSockets : client.readyState[w] = "none" /\ client'.readyState[w] # "none"

\* C34: the reconnect backoff is bounded.  The counter of attempts never
\* exceeds 5; a close that finds the counter at k - 1 < 5 makes it k and
\* schedules one reconnect with delay 1000 * 2^(k-1); a close that finds the
\* counter at 5 schedules nothing; every open resets the counter to 0.
ReconnectBackoff ==
  [][/\ client'.reconnectAttempts \in 0..5
     /\ ClosesASocket =>
          IF client.reconnectAttempts < 5
          THEN LET k == client.reconnectAttempts + 1
               IN /\ client'.reconnectAttempts = k
                  /\ client'.timers = setTimeout(client.timers, 1000 * 2 ^ (k - 1))
          ELSE /\ client'.reconnectAttempts = 5
               /\ client'.timers = client.timers
     /\ OpensASocket => client'.reconnectAttempts = 0]_vars

\* Five consecutive attempts have failed after the first connection did, the
\* fifth reconnect was scheduled with 16000 ms and has failed too, and no
\* reconnect is pending.
BackoffExhausted ==
  /\ client.reconnectAttempts = 5
  /\ client.timers = <<>>
  /\ \A w \in 1..6 : client.readyState[w] = "closed"
  /\ \A w \in ClientSockets : client.readyState[w] \in {"closed", "none"}

\* C37: an explicit disconnect is final.  From disconnect() or logout() on an
\* open connection until the application calls connect() again, no step
\* schedules a reconnect and no step creates a WebSocket.
DisconnectIsFinal ==
  [][(client.stopped /\ client'.stopped) =>
       /\ Len(client'.timers) <= Len(client.timers)
       /\ ~CreatesASocket]_vars

(* ------------------------ properties of the friends -------------------- *)
\* Two users share a group, or an accepted friendship joins them.
ShareGroup(a, b) ==
  \E g \in Groups : group_members[g][a] # "none" /\ group_members[g][b] # "none"

Friends(a, b) ==
  \E f \in friendships : ofPair(f.user_id, f.friend_id, a, b) /\ f.status = "accepted"

\* C35: ledger entries are not deleted while a link exists.  No step deletes
\* a row of two users, in any scope, who after the step are members of a
\* common group or are joined by an accepted friendship.
NoDeleteWhileLinked ==
  [][\A k \in Keys :
       (balances[k].exists /\ (ShareGroup(k[1], k[2])' \/ Friends(k[1], k[2])')) =>
         balances'[k].exists]_vars

(* ------------------------ properties of the simplifier's output -------- *)
\* What the transactions make user p pay, and what they make p receive.
RECURSIVE Paid(_, _)
Paid(transactions, p) ==
  IF transactions = <<>> THEN 0
  ELSE (IF Head(transactions).from_user_id = p THEN Head(transactions).amount ELSE 0)
       + Paid(Tail(transactions), p)

RECURSIVE Received(_, _)
Received(transactions, p) ==
  IF transactions = <<>> THEN 0
  ELSE (IF Head(transactions).to_user_id = p THEN Head(transactions).amount ELSE 0)
       + Received(Tail(transactions), p)

\* C38: the output of the simplifier is well-formed for every input.  Every
\* returned transaction has an amount above epsilon and goes from a
\* participant with net below -epsilon to a different participant with net
\* above epsilon; what a debtor pays in total does not exceed its absolute
\* net, and what a creditor receives in total does not exceed its net.
WellFormedOutput ==
  \A n \in 1..Len(outputs) :
    LET netBalance == netBalanceOf(snapshot, <<>>)
        transactions == outputs[n].simplified
    IN /\ \A m \in 1..Len(transactions) :
            /\ transactions[m].amount > Epsilon
            /\ NetOf(netBalance, transactions[m].from_user_id) < 0 - Epsilon
            /\ NetOf(netBalance, transactions[m].to_user_id) > Epsilon
            /\ transactions[m].from_user_id # transactions[m].to_user_id
       /\ \A p \in Participants :
            /\ NetOf(netBalance, p) < 0 => Paid(transactions, p) <= 0 - NetOf(netBalance, p)
            /\ NetOf(netBalance, p) > 0 => Received(transactions, p) <= NetOf(netBalance, p)

\* C39: the matching loop terminates.  When a run has returned, its loop has
\* ended, every execution of its body has moved at least one of the two
\* indices forward, and the body was executed at most (number of creditors +
\* number of debtors) times.
BoundedIterations ==
  Len(outputs) >= 1 =>
    LET netBalance == netBalanceOf(snapshot, <<>>)
        run == simplifyRun(snapshot)
    IN /\ ~(run.i <= Len(run.creditors) /\ run.j <= Len(run.debtors))
       /\ run.iterations <= (run.i - 1) + (run.j - 1)
       /\ run.iterations <= Len(creditorsOf(netBalance)) + Len(debtorsOf(netBalance))

\* A run whose loop body was executed three times: once leaving the debtor,
\* once leaving the creditor, once leaving both.
ThreeIterations ==
  /\ Len(outputs) >= 1
  /\ simplifyRun(snapshot).iterations = 3
  /\ simplifyRun(snapshot).i = 3
  /\ simplifyRun(snapshot).j = 3

(* ------------------------ properties of the balance with a friend ----- *)
\* C40: the two reads of the balance with a friend agree.  In every state
\* in which no request is in flight, for every pair of users the
\* totalBalance of GET /api/balances/friend/:friendId equals the totalBalance
\* of GET /api/friends/:friendId/balance.
FriendReadsAgree ==
  reqs[1] = IdleReq =>
    \A userId \in Users : \A friendId \in Users \ {userId} :
      friendTotalBalance(balances, userId, friendId) = friendBalance(balances, userId, friendId)

====
